---- MODULE Spec2Model ----
(***************************************************************************)
(* A model of one phpbridge session (src/phpbridge/__init__.py): the       *)
(* request/response engine (send_command, send, receive), the decoding of  *)
(* object and resource wire values through the handle registry            *)
(* (_lookup, _register, _collect), the nested classInfo commands that      *)
(* decoding an object of a not yet materialized class issues               *)
(* (get_class, objects.create_class), and the environment: the worker      *)
(* that answers, the application that drops its references to proxies,     *)
(* and the memory reclamation that runs the weakref.finalize callbacks.    *)
(***************************************************************************)
EXTENDS Integers, FiniteSets, Sequences, TLC

(* Number of proxies the session constructs in one run. *)
MaxProxies == 3

(* The count of empty reads is kept up to this number. *)
MaxEofReads == 2

(* Records left without a reply, at most. *)
MaxUnanswered == 2

(* Calls each of the concurrent callers makes. *)
MaxCalls == 2

(* Code points in a text string and bytes in a byte string given to encode. *)
MaxStrLen == 2
MaxBytesLen == 3

(* Items in a list, a mapping or a wire array. *)
MaxItems == 2

(* Handles: spl_object_hash strings of objects, integer ids of resources.  *)
(* Both key the same dictionary _remotes and the same set _collected.      *)
ObjHashes == {"o1"}
ResIds == {"r1"}
Handles == ObjHashes \cup ResIds

(* The worker's classes.  Exception implements the interface Throwable,    *)
(* Foo has no parent, trait or interface.                                  *)
ClassNames == {"Foo", "Exception", "Throwable"}
PayloadClasses == {"Foo", "Exception"}

VARIABLES
    input,           \* the command stream: "open" or "broken" (worker gone)
    output,          \* the reply stream: "open" or "eof"
    classes,         \* keys of bridge.classes
    _remotes,        \* handle -> proxy whose finalize object is stored, 0: no key
    _collected,      \* handles pending collection
    proxies,         \* every proxy constructed so far: [ident, cls, st]
    pc,              \* "idle", "wait" (in receive), "waitClass" (in a nested receive)
    decodeFlag,      \* the decode argument of the command in progress
    pending,         \* the wire value whose decoding waits for create_class
    stack,           \* classes whose create_class is in progress, innermost last
    outcome,         \* how the send_command that ended in this step ended
    written,         \* the record this step wrote (at most one)
    readLine,        \* the reply line this step read (at most one)
    decoded,         \* the wire value this step decoded and the proxy it got
    eofReads,        \* history: number of empty reads so far, capped
    gc,              \* history: per handle "none", "hooked" or "acked"
    inflight,        \* history: garbage field of the record awaiting its reply
    hookedSinceSend, \* history: handles whose hook ran since the last record
    everAcked,       \* history: handles acknowledged after their hook ran
    unanswered,      \* history: records written minus reply lines read
    awaiting,        \* history: records written minus reads made
    faulted,         \* history: a call has raised the value of an exception reply
    callerPc,        \* concurrent callers: where each thread is in send_command
    callsMade,       \* concurrent callers: calls each thread has started
    commandPipe,     \* concurrent callers: records the worker has not yet read
    replyPipe,       \* concurrent callers: reply lines nobody has read yet
    got,             \* concurrent callers: whose reply each thread's receive read
    data,            \* codec: the value given to encode
    wire,            \* codec: the wire value encode returned or the worker sent
    back,            \* codec: what decode returned for wire
    item,            \* codec: the result of the last access to a decoded Array
    codecPc,         \* codec: "idle", "input", "encoded" or "arrived", "decoded",
                     \*        "accessed"
    classTable,      \* classes: the worker's classes: bases and signature types
    frames,          \* classes: the activations of create_class, innermost last
    classObjects,    \* classes: bridge.classes, name -> class object, 0: no key
    created,         \* classes: number of class objects made so far
    resolved,        \* classes: history: the first class get_class returned
    returned,        \* classes: the name and class get_class returned in this step
    asked,           \* classes: the name this step sent classInfo for
    rsCache,         \* resolve: the names in bridge.classes, functions, constants
    rsPc,            \* resolve: "idle", "resolving" (resolveName sent) or
                     \*          "fetching" (the command that gets the thing sent)
    rsCall,          \* resolve: the name being resolved and its kind
    rsWritten,       \* resolve: the record this step wrote (at most one)
    rsRead,          \* resolve: the reply this step read (at most one)
    rsOutcome,       \* resolve: how the resolve that ended in this step ended
    rsSent,          \* resolve: history: resolveName records of the last call
    rsUnread,        \* resolve: history: records written minus replies read
    rsFailed,        \* resolve: history: names that were reported unresolvable
    bases,           \* bases: the list bases of create_class
    given,           \* bases: history: the list before the pruning loop
    pruned,          \* bases: history: the classes the loop deleted
    prunePc,         \* bases: "idle", "pruning" or "done"
    sRemotes,        \* sessions: _remotes of each bridge
    sCollected,      \* sessions: _collected of each bridge
    sCaches,         \* sessions: keys of classes, functions, constants of each
    heap,            \* sessions: every proxy constructed so far, by any bridge
    owner,           \* sessions: the bridge (_bridge) of each proxy
    sYielded,        \* sessions: history: the proxies each bridge's decode returned
    sActed,          \* sessions: the bridge that acted in this step, and how
    reply,           \* replies: the reply line receive parses
    replyDecode,     \* replies: the decode argument of send_command
    replyOutcome,    \* replies: what send_command returned or raised
    replyPc,         \* replies: "idle", "arrived" or "done"
    array,           \* arrays: an Array the application holds
    arrMade,         \* arrays: how it was made, until it is first changed
    arrItem,         \* arrays: the last operation on it and its result
    signature,       \* arguments: the parameters of func.__signature__
    orig_args,       \* arguments: the positional arguments of the call
    orig_kwargs,     \* arguments: the keyword arguments of the call
    parsed,          \* arguments: what parse_args returned or raised
    callRecord,      \* arguments: the callFun record func wrote (at most one)
    argsPc,          \* arguments: "idle", "called", "parsed", "raised",
                     \*            "unencodable" or "sent"
    sigInfo,         \* signatures: info['params'] of the worker and add_first
    sigMade,         \* signatures: the parameters make_signature made
    sigPc            \* signatures: "idle", "described" or "made"

coreVars == <<input, output, classes, _remotes, _collected, proxies, pc,
              decodeFlag, pending, stack, outcome, written, readLine, decoded,
              eofReads>>

gcVars == <<gc, inflight, hookedSinceSend, everAcked>>

callVars == <<unanswered, awaiting, faulted>>

callerVars == <<callerPc, callsMade, commandPipe, replyPipe, got>>

codecVars == <<data, wire, back, item, codecPc>>

classVars == <<classTable, frames, classObjects, created, resolved, returned,
               asked>>

resolveVars == <<rsCache, rsPc, rsCall, rsWritten, rsRead, rsOutcome, rsSent,
                 rsUnread, rsFailed>>

basesVars == <<bases, given, pruned, prunePc>>

sessionsVars == <<sRemotes, sCollected, sCaches, heap, owner, sYielded, sActed>>

replyVars == <<reply, replyDecode, replyOutcome, replyPc>>

arrayVars == <<array, arrMade, arrItem>>

argsVars == <<signature, orig_args, orig_kwargs, parsed, callRecord, argsPc>>

signatureVars == <<sigInfo, sigMade, sigPc>>

laterVars == <<resolveVars, basesVars, sessionsVars, replyVars, arrayVars,
               argsVars, signatureVars>>

engineVars == <<coreVars, gcVars, callVars, callerVars, codecVars, classVars>>

(* What the steps of one part of the model leave unchanged. *)
notResolve == <<engineVars, basesVars, sessionsVars, replyVars, arrayVars,
    argsVars, signatureVars>>
notBases == <<engineVars, resolveVars, sessionsVars, replyVars, arrayVars,
    argsVars, signatureVars>>
notSessions == <<engineVars, resolveVars, basesVars, replyVars, arrayVars,
    argsVars, signatureVars>>
notReplies == <<engineVars, resolveVars, basesVars, sessionsVars, arrayVars,
    argsVars, signatureVars>>
notArrays == <<engineVars, resolveVars, basesVars, sessionsVars, replyVars,
    argsVars, signatureVars>>
notArgs == <<engineVars, resolveVars, basesVars, sessionsVars, replyVars,
    arrayVars, signatureVars>>
notSignatures == <<engineVars, resolveVars, basesVars, sessionsVars, replyVars,
    arrayVars, argsVars>>

auxVars == <<callerVars, codecVars, classVars, laterVars>>

vars == <<coreVars, gcVars, callVars, auxVars>>

----------------------------------------------------------------------------
(* Wire values and replies *)

ScalarValue == [type |-> "string", name |-> "", hash |-> ""]
ObjectValues == [type : {"object"}, name : PayloadClasses, hash : ObjHashes]
ResourceValues == [type : {"resource"}, name : {"stream"}, hash : ResIds]
WireValues == {ScalarValue} \cup ObjectValues \cup ResourceValues

(* A thrown value is an object of a class that implements Throwable. *)
ThrownValues == {v \in ObjectValues : v.name = "Exception"}

Replies ==
    [type : {"result"}, collected : SUBSET Handles, data : WireValues]
    \cup [type : {"exception"}, collected : SUBSET Handles, data : ThrownValues]
    \cup [type : {"bogus"}, collected : SUBSET Handles, data : {ScalarValue}]

(* classInfo is answered for every class the worker itself named. *)
ClassInfoReplies == {r \in Replies : r.type \in {"result", "bogus"}
                                     /\ r.data = ScalarValue}

(* info['interfaces'] of the classInfo result for a class *)
Interfaces(c) == IF c = "Exception" THEN <<"Throwable">> ELSE <<>>

(* Whether instances of the class created for c derive from BaseException: *)
(* the predefined Throwable adds Exception to the bases.                   *)
IsThrowable(c) == c \in {"Throwable", "Exception"}

Commands == {"callFun", "listEverything"}
DecodeOf(cmd) == cmd = "callFun"

NoOutcome == [kind |-> "none", what |-> "", proxy |-> 0,
              replyType |-> "", replyHash |-> ""]
Returned(what, p, rt, rh) == [kind |-> "returned", what |-> what, proxy |-> p,
                              replyType |-> rt, replyHash |-> rh]
(* return where the code raises *)
ReturnedInsteadOfRaised(what, p, rt, rh) ==
    [kind |-> "returned", what |-> what, proxy |-> p,
     replyType |-> rt, replyHash |-> rh]

Raised(what, p, rt, rh) == [kind |-> "raised", what |-> what, proxy |-> p,
                            replyType |-> rt, replyHash |-> rh]

NoValue == [type |-> "", name |-> "", hash |-> ""]
NoPending == [mode |-> "", value |-> NoValue]

----------------------------------------------------------------------------
(* The registry *)

(* PHPBridge._lookup: the proxy registered for ident if its finalize       *)
(* object is still alive (peek() is not None), else 0 for None.            *)
_lookup(rem, prox, ident) ==
    IF rem[ident] = 0 THEN 0
    ELSE IF prox[rem[ident]].st = "live" THEN rem[ident]
    ELSE 0

(* The new proxy is not stored. *)
_registerSkipped(rem, ident, p) == rem

(* PHPBridge._register: store a new finalize object under ident. *)
_register(rem, ident, p) == [rem EXCEPT ![ident] = p]

(* PHPBridge.get_object and PHPBridge.get_resource: reuse or construct.    *)
(* cls is the class for an object and "resource" for a resource.           *)
get_object(rem, prox, cls, ident) ==
    LET obj == _lookup(rem, prox, ident)
        new == Len(prox) + 1
    IN  IF obj # 0
        THEN [remotes |-> rem, proxies |-> prox, obj |-> obj]
        ELSE [remotes |-> _register(rem, ident, new),
              proxies |-> Append(prox, [ident |-> ident, cls |-> cls,
                                        st |-> "live"]),
              obj |-> new]

get_resource(rem, prox, type_, id_) ==
    LET resource == _lookup(rem, prox, id_)
        new == Len(prox) + 1
    IN  IF resource # 0
        THEN [remotes |-> rem, proxies |-> prox, obj |-> resource]
        ELSE [remotes |-> _register(rem, id_, new),
              proxies |-> Append(prox, [ident |-> id_, cls |-> "resource",
                                        st |-> "live"]),
              obj |-> new]

(* A reply that acknowledges anything empties the pending set. *)
ApplyCollectedClearsAll(coll, keys) == IF keys = {} THEN coll ELSE {}

(* The acknowledgments of a reply are not applied. *)
ApplyCollectedSkips(coll, keys) == coll

(* The acknowledgment loop of PHPBridge.receive: every key of the reply's  *)
(* collected list that is pending is removed, any other key is skipped.    *)
RECURSIVE ApplyCollected(_, _)
ApplyCollected(coll, keys) ==
    IF keys = {} THEN coll
    ELSE LET key == CHOOSE k \in keys : TRUE
         IN  ApplyCollected(IF key \in coll THEN coll \ {key} ELSE coll,
                            keys \ {key})

----------------------------------------------------------------------------
(* The engine.  A step record holds what a handler leaves behind. *)

(* send without the garbage field, as in the single-file bridge. *)
sendWithoutGarbage(command, coll) == <<[cmd |-> command, garbage |-> {}]>>

(* send with a cap on the garbage field: one pending handle at most. *)
sendCapped(command, coll) ==
    <<[cmd |-> command,
       garbage |-> IF coll = {} THEN {} ELSE {CHOOSE h \in coll : TRUE}]>>

(* PHPBridge.send on a writable stream: one record, whose garbage field is *)
(* a copy of the pending set at this moment.                               *)
send(command, coll) == <<[cmd |-> command, garbage |-> coll]>>

(* The call ends with a record written whose reply nobody reads. *)
DoneWritesUnread(out, rem, prox, cls, obj, hash) ==
    [pc |-> "idle", outcome |-> out, remotes |-> rem, proxies |-> prox,
     classes |-> cls, pending |-> NoPending, stack |-> <<>>,
     written |-> <<[cmd |-> "getMessage", garbage |-> _collected]>>,
     obj |-> obj, hash |-> hash]

Done(out, rem, prox, cls, obj, hash) ==
    [pc |-> "idle", outcome |-> out, remotes |-> rem, proxies |-> prox,
     classes |-> cls, pending |-> NoPending, stack |-> <<>>,
     written |-> <<>>, obj |-> obj, hash |-> hash]

(* An error raised while the reply is decoded.  Inside the exception       *)
(* branch of receive every Exception is replaced by "Failed decoding       *)
(* exception"; for a result it propagates as it is.                        *)
Failure(mode, err, value, cls) ==
    Done(Raised(IF mode = "exception" THEN "FailedDecodingException" ELSE err,
                0, mode, value.hash),
         _remotes, proxies, cls, 0, "")

(* PHPBridge.decode once the class of an object value is in bridge.classes,*)
(* followed by the end of the call: send_command returns the decoded       *)
(* result, receive raises the decoded exception value.                     *)
decode(mode, value, cls) ==
    LET g == CASE value.type = "object" ->
                      get_object(_remotes, proxies, value.name, value.hash)
               [] value.type = "resource" ->
                      get_resource(_remotes, proxies, value.name, value.hash)
               [] OTHER ->
                      [remotes |-> _remotes, proxies |-> proxies, obj |-> 0]
        out == IF mode = "result"
               THEN Returned(IF g.obj = 0 THEN "value" ELSE "proxy",
                             g.obj, mode, value.hash)
               ELSE IF g.obj # 0 /\ IsThrowable(g.proxies[g.obj].cls)
               THEN Raised("PHPThrowable", g.obj, mode, value.hash)
               ELSE Raised("TypeError", 0, mode, value.hash)
    IN  Done(out, g.remotes, g.proxies, cls, g.obj, value.hash)
            @@ [wire |-> value]

(* The loop over info['interfaces'] in create_class: the first interface   *)
(* that is not in bridge.classes is asked for (get_class -> create_class), *)
(* and a class all of whose bases are there is registered, which resumes   *)
(* the create_class below it.                                              *)
RECURSIVE Resume(_, _)
Resume(stk, cls) ==
    IF stk = <<>> THEN [stack |-> stk, classes |-> cls, ask |-> ""]
    ELSE LET c == stk[Len(stk)]
             missing == {i \in 1..Len(Interfaces(c)) :
                             Interfaces(c)[i] \notin cls}
         IN  IF missing # {}
             THEN LET i == CHOOSE j \in missing :
                                \A k \in missing : j <= k
                  IN  [stack |-> Append(stk, Interfaces(c)[i]),
                       classes |-> cls, ask |-> Interfaces(c)[i]]
             ELSE Resume(SubSeq(stk, 1, Len(stk) - 1), cls \cup {c})

(* The classInfo record is written and decoding goes on without its reply. *)
create_classNoWait(mode, value, coll, res) ==
    IF res.ask = "" THEN decode(mode, value, res.classes)
    ELSE [decode(mode, value, res.classes \cup ClassNames)
             EXCEPT !.written = send("classInfo", coll)]

(* create_class: send the nested classInfo command that res asks for, or   *)
(* go on decoding when no class is missing any more.  coll is the pending  *)
(* set after the acknowledgments of the reply just read.                   *)
create_class(mode, value, coll, res) ==
    IF res.ask = "" THEN decode(mode, value, res.classes)
    ELSE IF input = "broken"
    THEN Failure(mode, "BrokenPipeError", value, res.classes)
    ELSE [pc |-> "waitClass", outcome |-> NoOutcome, remotes |-> _remotes,
          proxies |-> proxies, classes |-> res.classes,
          pending |-> [mode |-> mode, value |-> value], stack |-> res.stack,
          written |-> send("classInfo", coll),
          obj |-> 0, hash |-> ""]

(* PHPBridge.get_class called by decode for an object value. *)
get_class(mode, value, coll) ==
    IF value.type = "object" /\ value.name \notin classes
    THEN create_class(mode, value, coll,
                      [stack |-> <<value.name>>, classes |-> classes,
                       ask |-> value.name])
    ELSE decode(mode, value, classes)

(* PHPBridge.receive after the line has been parsed, and what send_command *)
(* does with its result.                                                   *)
receive(r, coll) ==
    IF r.type = "exception" THEN get_class("exception", r.data, coll)
    ELSE IF r.type = "result"
    THEN IF decodeFlag THEN get_class("result", r.data, coll)
         ELSE Done(Returned("raw", 0, "result", ""),
                   _remotes, proxies, classes, 0, "")
    ELSE Done(Raised("UnknownResponseType", 0, r.type, ""),
              _remotes, proxies, classes, 0, "")

(* The reply to a nested classInfo command. *)
receive_classInfo(r, coll) ==
    IF r.type = "result"
    THEN create_class(pending.mode, pending.value, coll,
                      Resume(stack, classes))
    ELSE Failure(pending.mode, "UnknownResponseType", pending.value, classes)

(* json.loads raises JSONDecodeError for a line that is not JSON; nothing   *)
(* in receive or send_command catches it, except the exception branch of   *)
(* an outer receive, which replaces it.                                    *)
JSONDecodeError(mode, value) ==
    Failure(mode, "JSONDecodeError", value, classes)

(* An empty line is handed on as an empty result. *)
ConnectionClosedReturnsNone(mode, value) ==
    [pc |-> "idle",
     outcome |-> [kind |-> "returned", what |-> "raw", proxy |-> 0,
                  replyType |-> mode, replyHash |-> value.hash],
     remotes |-> _remotes, proxies |-> proxies, classes |-> classes,
     pending |-> NoPending, stack |-> <<>>, written |-> <<>>,
     obj |-> 0, hash |-> ""]

(* The empty-line branch of receive: RuntimeError("Connection closed"),    *)
(* which the exception branch of an outer receive replaces.                *)
ConnectionClosed(mode, value) ==
    Done(Raised(IF mode = "exception" THEN "FailedDecodingException"
                ELSE "ConnectionClosed", 0, mode, value.hash),
         _remotes, proxies, classes, 0, "")

----------------------------------------------------------------------------
(* Actions *)

SessionInit ==
    /\ input = "open"
    /\ output = "open"
    /\ classes = {}
    /\ _remotes = [h \in Handles |-> 0]
    /\ _collected = {}
    /\ proxies = <<>>
    /\ pc = "idle"
    /\ decodeFlag = FALSE
    /\ pending = NoPending
    /\ stack = <<>>
    /\ outcome = NoOutcome
    /\ written = <<>>
    /\ readLine = <<>>
    /\ decoded = <<>>
    /\ eofReads = 0
    /\ inflight = {}
    /\ gc = [h \in Handles |-> "none"]
    /\ hookedSinceSend = {}
    /\ everAcked = {}
    /\ unanswered = 0
    /\ awaiting = 0
    /\ faulted = FALSE

(* The threads that share the session. *)
Callers == {"t1", "t2"}

CallersInit ==
    /\ callerPc = [c \in Callers |-> "idle"]
    /\ callsMade = [c \in Callers |-> 0]
    /\ commandPipe = <<>>
    /\ replyPipe = <<>>
    /\ got = [c \in Callers |-> ""]

(* The classes of the worker that name each other, and the names they are  *)
(* asked for under.                                                        *)
Names == {"Node", "Tree", "Leaf"}

(* A name given to get_class: a class name, or another spelling of one. *)
Requests == Names \cup {"\\Tree"}

(* info['name'] of the classInfo result. *)
Canonical(u) == IF u = "\\Tree" THEN "Tree" ELSE u

(* The parent, traits and interfaces a class can have: the hierarchy has   *)
(* no cycle.                                                               *)
BaseLists(c) ==
    CASE c = "Node" -> {<<>>}
      [] c = "Tree" -> {<<>>, <<"Node">>}
      [] c = "Leaf" -> {<<>>, <<"Node">>, <<"Tree">>, <<"Tree", "Node">>}

(* The classes named by the parameter and return types of the methods a    *)
(* class declares.                                                         *)
TypeLists == {<<>>} \cup {<<n>> : n \in Names}

ClassTables ==
    {tab \in [Names -> [bases : UNION {BaseLists(c) : c \in Names},
                        types : TypeLists]] :
        \A c \in Names : tab[c].bases \in BaseLists(c)}

NoClassTable == [c \in Names |-> [bases |-> <<>>, types |-> <<>>]]

ClassesInit ==
    /\ classTable = NoClassTable
    /\ frames = <<>>
    /\ classObjects = [u \in Requests |-> 0]
    /\ created = 0
    /\ resolved = [u \in Requests |-> 0]
    /\ returned = <<>>
    /\ asked = <<>>

(* No name is being resolved. *)
NoCall == [name |-> "", kind |-> ""]
NoResolveOutcome == [kind |-> "none", what |-> ""]

ResolveInit ==
    /\ rsCache = [classes |-> {}, functions |-> {}, constants |-> {}]
    /\ rsPc = "idle"
    /\ rsCall = NoCall
    /\ rsWritten = <<>>
    /\ rsRead = <<>>
    /\ rsOutcome = NoResolveOutcome
    /\ rsSent = 0
    /\ rsUnread = 0
    /\ rsFailed = {}

BasesInit ==
    /\ bases = <<>>
    /\ given = <<>>
    /\ pruned = {}
    /\ prunePc = "idle"

(* Two bridges, each to a worker of its own. *)
Sessions == {"A", "B"}

NoAct == [session |-> "", op |-> "", hash |-> "", obj |-> 0, garbage |-> {}]

(* Two PHPBridge objects after __init__. *)
SessionsInit ==
    /\ sRemotes = [s \in Sessions |-> [h \in Handles |-> 0]]
    /\ sCollected = [s \in Sessions |-> {}]
    /\ sCaches = [s \in Sessions |->
                    [classes |-> {}, functions |-> {}, constants |-> {}]]
    /\ heap = <<>>
    /\ owner = <<>>
    /\ sYielded = [s \in Sessions |-> {}]
    /\ sActed = NoAct

NoReply == [type |-> "", data |-> [type |-> "", value |-> <<>>]]
NoReplyOutcome == [kind |-> "none", value |-> <<>>]

RepliesInit ==
    /\ reply = NoReply
    /\ replyDecode = FALSE
    /\ replyOutcome = NoReplyOutcome
    /\ replyPc = "idle"

NoMade == [by |-> "", items |-> <<>>]

ArraysInit ==
    /\ array = [t |-> "Array", val |-> <<>>]
    /\ arrMade = NoMade
    /\ arrItem = [op |-> "", index |-> [t |-> "NoneType", val |-> <<>>],
                  value |-> [t |-> "NoneType", val |-> <<>>]]

NoKwargs == [name \in {} |-> 0]
NotParsed == [raised |-> "", args |-> <<>>, iterations |-> 0]

ArgsInit ==
    /\ signature = <<>>
    /\ orig_args = <<>>
    /\ orig_kwargs = NoKwargs
    /\ parsed = NotParsed
    /\ callRecord = <<>>
    /\ argsPc = "idle"

NoInfo == [params |-> <<>>, add_first |-> <<>>]

SignaturesInit ==
    /\ sigInfo = NoInfo
    /\ sigMade = <<>>
    /\ sigPc = "idle"

(* The parts of the model that a specification leaves idle. *)
LaterInit(part) ==
    /\ part = "resolve" \/ ResolveInit
    /\ part = "bases" \/ BasesInit
    /\ part = "sessions" \/ SessionsInit
    /\ part = "replies" \/ RepliesInit
    /\ part = "arrays" \/ ArraysInit
    /\ part = "args" \/ ArgsInit
    /\ part = "signatures" \/ SignaturesInit

(* Nothing is being encoded or decoded. *)
None == [t |-> "NoneType", val |-> <<>>]
NoData == [t |-> "", val |-> <<>>]
NoWire == [type |-> "", value |-> None]
NoItem == [op |-> "", index |-> None, value |-> None]

CodecInit ==
    /\ data = NoData
    /\ wire = NoWire
    /\ back = None
    /\ item = NoItem
    /\ codecPc = "idle"

Init ==
    /\ SessionInit
    /\ CallersInit
    /\ CodecInit
    /\ ClassesInit
    /\ LaterInit("")

(* What a handler leaves behind becomes the next state. *)
Leave(n) ==
    /\ Len(n.proxies) <= MaxProxies
    /\ pc' = n.pc
    /\ outcome' = n.outcome
    /\ _remotes' = n.remotes
    /\ proxies' = n.proxies
    /\ classes' = n.classes
    /\ pending' = n.pending
    /\ stack' = n.stack
    /\ written' = n.written
    /\ decoded' = IF n.obj # 0
                  THEN <<[hash |-> n.hash, obj |-> n.obj,
                          type |-> n.wire.type, name |-> n.wire.name]>>
                  ELSE <<>>

(* send_command up to the point where receive blocks in readline: send     *)
(* writes the record, or the flush raises BrokenPipeError.                 *)
SendCommand ==
    /\ pc = "idle"
    /\ \E cmd \in Commands :
         IF input = "broken"
         THEN /\ outcome' = Raised("BrokenPipeError", 0, "", "")
              /\ written' = <<>>
              /\ UNCHANGED <<pc, decodeFlag>>
         ELSE /\ outcome' = NoOutcome
              /\ written' = send(cmd, _collected)
              /\ decodeFlag' = DecodeOf(cmd)
              /\ pc' = "wait"
    /\ readLine' = <<>>
    /\ decoded' = <<>>
    /\ UNCHANGED <<input, output, classes, _remotes, _collected, proxies,
                   pending, stack, eofReads>>

(* The acknowledgments are applied in the result branch only. *)
ReceiveReplyAcksResults ==
    /\ pc = "wait"
    /\ output = "open"
    /\ \E r \in Replies :
         LET coll == IF r.type = "result"
                     THEN ApplyCollected(_collected, r.collected)
                     ELSE _collected
         IN  /\ Leave(receive(r, coll))
             /\ _collected' = coll
             /\ readLine' = <<[eof |-> FALSE, type |-> r.type,
                               collected |-> r.collected]>>
    /\ UNCHANGED <<input, output, decodeFlag, eofReads>>

(* receive reads the reply to the command, applies its acknowledgments and *)
(* raises or returns; send_command decodes a returned result.              *)
ReceiveReply ==
    /\ pc = "wait"
    /\ output = "open"
    /\ \E r \in Replies :
         LET coll == ApplyCollected(_collected, r.collected)
         IN  /\ Leave(receive(r, coll))
             /\ _collected' = coll
             /\ readLine' = <<[eof |-> FALSE, type |-> r.type,
                               collected |-> r.collected]>>
    /\ UNCHANGED <<input, output, decodeFlag, eofReads>>

(* receive reads the reply to a nested classInfo command. *)
ReceiveClassInfo ==
    /\ pc = "waitClass"
    /\ output = "open"
    /\ \E r \in ClassInfoReplies :
         LET coll == ApplyCollected(_collected, r.collected)
         IN  /\ Leave(receive_classInfo(r, coll))
             /\ _collected' = coll
             /\ readLine' = <<[eof |-> FALSE, type |-> r.type,
                               collected |-> r.collected]>>
    /\ UNCHANGED <<input, output, decodeFlag, eofReads>>

(* readline returns the empty string: receive raises "Connection closed". *)
ReceiveEof ==
    /\ pc \in {"wait", "waitClass"}
    /\ output = "eof"
    /\ Leave(ConnectionClosed(pending.mode, pending.value))
    /\ readLine' = <<[eof |-> TRUE, type |-> "", collected |-> {}]>>
    /\ eofReads' = IF eofReads < MaxEofReads THEN eofReads + 1 ELSE eofReads
    /\ UNCHANGED <<input, output, decodeFlag, _collected>>

(* readline returns a line that is not JSON: json.loads raises before the   *)
(* acknowledgment loop.                                                    *)
ReceiveMalformed ==
    /\ pc \in {"wait", "waitClass"}
    /\ output = "open"
    /\ Leave(JSONDecodeError(pending.mode, pending.value))
    /\ readLine' = <<[eof |-> FALSE, type |-> "malformed", collected |-> {}]>>
    /\ UNCHANGED <<input, output, decodeFlag, _collected, eofReads>>

(* The application drops its last reference to a proxy: the weak reference *)
(* of its finalize object is cleared, the callback has not run yet.  The   *)
(* object is gone: its slot keeps the handle the callback was given.       *)
DropReference ==
    /\ \E p \in 1..Len(proxies) :
         /\ proxies[p].st = "live"
         /\ proxies' = [proxies EXCEPT ![p] = [ident |-> proxies[p].ident,
                                               cls |-> "", st |-> "dead"]]
    /\ outcome' = NoOutcome
    /\ written' = <<>>
    /\ readLine' = <<>>
    /\ decoded' = <<>>
    /\ UNCHANGED <<input, output, classes, _remotes, _collected, pc,
                   decodeFlag, pending, stack, eofReads>>

(* The callback drops the registry entry but does not note the handle. *)
_collectForgets ==
    /\ \E p \in 1..Len(proxies) :
         /\ proxies[p].st = "dead"
         /\ proxies' = [proxies EXCEPT ![p] = [ident |-> "", cls |-> "",
                                               st |-> "finalized"]]
         /\ _remotes' = [_remotes EXCEPT ![proxies[p].ident] = 0]
    /\ outcome' = NoOutcome
    /\ written' = <<>>
    /\ readLine' = <<>>
    /\ decoded' = <<>>
    /\ UNCHANGED <<input, output, classes, _collected, pc, decodeFlag,
                   pending, stack, eofReads>>

(* PHPBridge._collect, run by the finalize callback of a proxy that died.  *)
(* Afterwards nothing of the proxy is left.                                *)
_collect ==
    /\ \E p \in 1..Len(proxies) :
         /\ proxies[p].st = "dead"
         /\ proxies' = [proxies EXCEPT ![p] = [ident |-> "", cls |-> "",
                                               st |-> "finalized"]]
         /\ _collected' = _collected \cup {proxies[p].ident}
         /\ _remotes' = [_remotes EXCEPT ![proxies[p].ident] = 0]
    /\ outcome' = NoOutcome
    /\ written' = <<>>
    /\ readLine' = <<>>
    /\ decoded' = <<>>
    /\ UNCHANGED <<input, output, classes, pc, decodeFlag, pending, stack,
                   eofReads>>

(* The worker closes its reply stream but still reads commands. *)
WorkerClosesOutput ==
    /\ output = "open"
    /\ output' = "eof"
    /\ outcome' = NoOutcome
    /\ written' = <<>>
    /\ readLine' = <<>>
    /\ decoded' = <<>>
    /\ UNCHANGED <<input, classes, _remotes, _collected, proxies, pc,
                   decodeFlag, pending, stack, eofReads>>

(* The worker exits: both streams are severed. *)
WorkerExits ==
    /\ input = "open"
    /\ input' = "broken"
    /\ output' = "eof"
    /\ outcome' = NoOutcome
    /\ written' = <<>>
    /\ readLine' = <<>>
    /\ decoded' = <<>>
    /\ UNCHANGED <<classes, _remotes, _collected, proxies, pc,
                   decodeFlag, pending, stack, eofReads>>

----------------------------------------------------------------------------
(* The history of hooks and acknowledgments, read off the steps. *)

HookedNow ==
    {proxies[p].ident : p \in {q \in 1..Len(proxies) :
                                   /\ proxies[q].st = "dead"
                                   /\ proxies'[q].st = "finalized"}}

AckedNow ==
    IF readLine' # <<>>
    THEN {h \in readLine'[1].collected : gc[h] = "hooked"}
    ELSE {}

(* gc[h] is "hooked" from the hook of a proxy of h until a reply that      *)
(* acknowledges h has been processed, and "acked" from then to the next    *)
(* hook of a proxy of h.                                                   *)
GcHistory ==
    gc' = [h \in Handles |->
              IF h \in HookedNow THEN "hooked"
              ELSE IF h \in AckedNow THEN "acked"
              ELSE gc[h]]

History ==
    /\ GcHistory
    /\ UNCHANGED <<inflight, hookedSinceSend, everAcked>>
    /\ UNCHANGED <<callVars, auxVars>>

Next ==
    \/ SendCommand /\ History
    \/ ReceiveReply /\ History
    \/ ReceiveClassInfo /\ History
    \/ ReceiveEof /\ History
    \/ ReceiveMalformed /\ History
    \/ DropReference /\ History
    \/ _collect /\ History
    \/ WorkerClosesOutput /\ History
    \/ WorkerExits /\ History

Spec == Init /\ [][Next]_vars

(* The same session with a worker that keeps to the protocol: it           *)
(* acknowledges only handles that the garbage field of the command it      *)
(* answers listed.                                                         *)
ProtocolHistory ==
    /\ readLine' # <<>> => readLine'[1].collected \subseteq inflight
    /\ GcHistory
    /\ everAcked' = everAcked \cup AckedNow
    /\ hookedSinceSend' = IF written' # <<>> THEN {}
                          ELSE hookedSinceSend \cup HookedNow
    /\ inflight' = IF written' # <<>> THEN written'[1].garbage
                   ELSE IF readLine' # <<>> THEN {}
                   ELSE inflight
    /\ UNCHANGED <<callVars, auxVars>>

NextGc ==
    \/ SendCommand /\ ProtocolHistory
    \/ ReceiveReply /\ ProtocolHistory
    \/ ReceiveClassInfo /\ ProtocolHistory
    \/ ReceiveEof /\ ProtocolHistory
    \/ ReceiveMalformed /\ ProtocolHistory
    \/ DropReference /\ ProtocolHistory
    \/ _collect /\ ProtocolHistory
    \/ WorkerClosesOutput /\ ProtocolHistory
    \/ WorkerExits /\ ProtocolHistory

SpecGc == Init /\ [][NextGc]_vars

(* The same session with its records and reads counted.  The worker writes *)
(* one line per record, so a line read answers the oldest record that has  *)
(* no reply yet.                                                           *)
LinesRead == IF readLine' # <<>> /\ ~readLine'[1].eof THEN 1 ELSE 0
ReadsMade == IF readLine' # <<>> THEN 1 ELSE 0
RecordsWritten == IF written' # <<>> THEN 1 ELSE 0

CallHistory ==
    /\ unanswered' = (unanswered - LinesRead) + RecordsWritten
    /\ unanswered' <= MaxUnanswered
    /\ awaiting' = (awaiting - ReadsMade) + RecordsWritten
    /\ faulted' = (faulted \/ outcome'.what = "PHPThrowable")
    /\ UNCHANGED <<gcVars, auxVars>>

NextCalls ==
    \/ SendCommand /\ CallHistory
    \/ ReceiveReply /\ CallHistory
    \/ ReceiveClassInfo /\ CallHistory
    \/ ReceiveEof /\ CallHistory
    \/ ReceiveMalformed /\ CallHistory
    \/ DropReference /\ CallHistory
    \/ _collect /\ CallHistory
    \/ WorkerClosesOutput /\ CallHistory
    \/ WorkerExits /\ CallHistory

SpecCalls == Init /\ [][NextCalls]_vars

----------------------------------------------------------------------------
(* Several threads call send_command on one session.  send_command takes   *)
(* no lock: a thread is between its send and its receive whenever the      *)
(* scheduler says so.  Each record carries no request id; the worker       *)
(* answers the records in the order it reads them.                         *)

(* self.send(cmd, data): the thread's record goes into the command stream. *)
CallerSend(c) ==
    /\ callerPc[c] = "idle"
    /\ callsMade[c] < MaxCalls
    /\ callsMade' = [callsMade EXCEPT ![c] = @ + 1]
    /\ commandPipe' = Append(commandPipe, c)
    /\ callerPc' = [callerPc EXCEPT ![c] = "sent"]
    /\ got' = [got EXCEPT ![c] = ""]
    /\ UNCHANGED replyPipe

(* result = self.receive(): the thread reads the next line there is. *)
CallerReceive(c) ==
    /\ callerPc[c] = "sent"
    /\ replyPipe # <<>>
    /\ got' = [got EXCEPT ![c] = Head(replyPipe)]
    /\ replyPipe' = Tail(replyPipe)
    /\ callerPc' = [callerPc EXCEPT ![c] = "idle"]
    /\ UNCHANGED <<callsMade, commandPipe>>

(* The worker reads one record and writes the reply to it. *)
WorkerAnswers ==
    /\ commandPipe # <<>>
    /\ replyPipe' = Append(replyPipe, Head(commandPipe))
    /\ commandPipe' = Tail(commandPipe)
    /\ UNCHANGED <<callerPc, callsMade, got>>

NextCallers ==
    \/ (\E c \in Callers : CallerSend(c))
           /\ UNCHANGED <<coreVars, gcVars, callVars, codecVars, classVars,
                         laterVars>>
    \/ (\E c \in Callers : CallerReceive(c))
           /\ UNCHANGED <<coreVars, gcVars, callVars, codecVars, classVars,
                         laterVars>>
    \/ WorkerAnswers
           /\ UNCHANGED <<coreVars, gcVars, callVars, codecVars, classVars,
                         laterVars>>

SpecCallers == Init /\ [][NextCallers]_vars

----------------------------------------------------------------------------
(* The wire codec: PHPBridge.encode and PHPBridge.decode as functions.     *)
(* A Python value is [t |-> its type, val |-> its content]: a str holds    *)
(* its code points, a bytes its bytes, a list its items, a dict or an      *)
(* Array its entries [k, val] in insertion order.  A wire value is         *)
(* [type |-> the tag, value |-> the content].                              *)

Str(s) == [t |-> "str", val |-> s]
Bytes(b) == [t |-> "bytes", val |-> b]
Bool(b) == [t |-> "bool", val |-> b]
PyInt(n) == [t |-> "int", val |-> n]
Float(f) == [t |-> "float", val |-> f]
List(items) == [t |-> "list", val |-> items]
Dict(entries) == [t |-> "dict", val |-> entries]
ArrayValue(entries) == [t |-> "Array", val |-> entries]

(* An exception leaves encode or decode. *)
Raise(err) == [type |-> "raise", value |-> [t |-> "exception", val |-> err]]
Raises(w) == w.type = "raise"

(* The code points of the names and sentinels the codec writes. *)
Chars(name) ==
    CASE name = "INF" -> <<73, 78, 70>>
      [] name = "-INF" -> <<45, 73, 78, 70>>
      [] name = "NAN" -> <<78, 65, 78>>
      [] name = "Foo" -> <<70, 111, 111>>
      [] name = "strlen" -> <<115, 116, 114, 108, 101, 110>>
      [] name = "bar" -> <<98, 97, 114>>
      [] name = "True" -> <<84, 114, 117, 101>>
      [] name = "False" -> <<70, 97, 108, 115, 101>>

(* U+D800..U+DFFF, and U+DC80..U+DCFF: the code points that the            *)
(* surrogateescape error handler stands for the bytes 0x80..0xFF.          *)
IsSurrogate(c) == c >= 55296 /\ c <= 57343
IsEscape(c) == c >= 56448 /\ c <= 56575

(* UTF-8 of one code point below U+0800 that is no surrogate. *)
Utf8Char(c) ==
    IF c < 128 THEN <<c>> ELSE <<192 + (c \div 64), 128 + (c % 64)>>

(* str.encode(errors=...): [ok |-> no UnicodeEncodeError, bytes]. *)
RECURSIVE str_encode(_, _)
str_encode(s, errors) ==
    IF s = <<>> THEN [ok |-> TRUE, bytes |-> <<>>]
    ELSE LET c == Head(s)
             rest == str_encode(Tail(s), errors)
             this == IF ~IsSurrogate(c)
                     THEN [ok |-> TRUE, bytes |-> Utf8Char(c)]
                     ELSE IF errors = "surrogateescape" /\ IsEscape(c)
                     THEN [ok |-> TRUE, bytes |-> <<c - 56320>>]
                     ELSE [ok |-> FALSE, bytes |-> <<>>]
         IN  [ok |-> this.ok /\ rest.ok, bytes |-> this.bytes \o rest.bytes]

(* bytes.decode(errors='surrogateescape'): UTF-8 with sequences of one and *)
(* two bytes; every other byte becomes its escape code point.              *)
RECURSIVE bytes_decode(_)
bytes_decode(b) ==
    IF b = <<>> THEN <<>>
    ELSE IF b[1] < 128 THEN <<b[1]>> \o bytes_decode(Tail(b))
    ELSE IF /\ b[1] >= 194 /\ b[1] <= 223
            /\ Len(b) >= 2 /\ b[2] >= 128 /\ b[2] <= 191
    THEN <<(b[1] - 192) * 64 + (b[2] - 128)>>
             \o bytes_decode(SubSeq(b, 3, Len(b)))
    ELSE <<56320 + b[1]>> \o bytes_decode(Tail(b))

(* The base64 alphabet: A-Z, a-z, 0-9, + and /; 61 is the padding '='. *)
B64Char(n) ==
    IF n < 26 THEN 65 + n
    ELSE IF n < 52 THEN 97 + (n - 26)
    ELSE IF n < 62 THEN 48 + (n - 52)
    ELSE IF n = 62 THEN 43 ELSE 47

B64Index(c) ==
    IF c >= 65 /\ c <= 90 THEN c - 65
    ELSE IF c >= 97 /\ c <= 122 THEN (c - 97) + 26
    ELSE IF c >= 48 /\ c <= 57 THEN (c - 48) + 52
    ELSE IF c = 43 THEN 62 ELSE 63

(* base64.b64encode(data).decode() *)
RECURSIVE b64encode(_)
b64encode(b) ==
    IF b = <<>> THEN <<>>
    ELSE LET n == Len(b)
             b1 == b[1]
             b2 == IF n >= 2 THEN b[2] ELSE 0
             b3 == IF n >= 3 THEN b[3] ELSE 0
         IN  << B64Char(b1 \div 4),
                B64Char((b1 % 4) * 16 + (b2 \div 16)),
                IF n >= 2 THEN B64Char((b2 % 16) * 4 + (b3 \div 64)) ELSE 61,
                IF n >= 3 THEN B64Char(b3 % 64) ELSE 61 >>
             \o b64encode(SubSeq(b, 4, n))

(* base64.b64decode(value) *)
RECURSIVE b64decode(_)
b64decode(x) ==
    IF Len(x) < 4 THEN <<>>
    ELSE LET i1 == B64Index(x[1])
             i2 == B64Index(x[2])
             i3 == IF x[3] = 61 THEN 0 ELSE B64Index(x[3])
             i4 == IF x[4] = 61 THEN 0 ELSE B64Index(x[4])
         IN  <<i1 * 4 + (i2 \div 16)>>
             \o (IF x[3] = 61 THEN <<>> ELSE <<(i2 % 16) * 16 + (i3 \div 4)>>)
             \o (IF x[4] = 61 THEN <<>> ELSE <<(i3 % 4) * 64 + i4>>)
             \o b64decode(SubSeq(x, 5, Len(x)))

(* The bytes branch of encode. *)
BytesWire(b) == [type |-> "bytes", value |-> Str(b64encode(b))]

(* The str branch of encode: data.encode() succeeds, or the text is        *)
(* encoded with surrogateescape and falls into the bytes branch.  The      *)
(* second encode is outside the try block.                                 *)
EncodeStr(s) ==
    IF str_encode(s, "strict").ok
    THEN [type |-> "string", value |-> Str(s)]
    ELSE IF str_encode(s, "surrogateescape").ok
    THEN BytesWire(str_encode(s, "surrogateescape").bytes)
    ELSE Raise("UnicodeEncodeError")

(* Both infinities become 'INF', as in the single-file bridge. *)
FloatWireUnsigned(f) ==
    IF f.val = "nan" THEN Str(Chars("NAN"))
    ELSE IF f.val \in {"inf", "-inf"} THEN Str(Chars("INF"))
    ELSE f

(* The float branch of encode: the value field. *)
FloatWire(f) ==
    IF f.val = "nan" THEN Str(Chars("NAN"))
    ELSE IF f.val \in {"inf", "-inf"}
    THEN IF f.val = "inf" THEN Str(Chars("INF")) ELSE Str(Chars("-INF"))
    ELSE f

(* Only str keys make a mapping an array, as in the single-file bridge. *)
DictKeysStrOnly(entries) ==
    \A i \in 1..Len(entries) : entries[i].k.t = "str"

(* all(isinstance(key, str) or isinstance(key, int) for key in data):      *)
(* a bool is an int.                                                       *)
DictKeysOk(entries) ==
    \A i \in 1..Len(entries) : entries[i].k.t \in {"str", "int", "bool"}

(* The owner is not looked at. *)
OwnedUnchecked(x) == TRUE

(* data._bridge is self, getattr(data, '_bridge', None) is self *)
Owned(x) == x.val.bridge = "self"

(* The first exception raised while the items are encoded in order. *)
FirstRaise(ws) ==
    LET bad == {i \in 1..Len(ws) : Raises(ws[i])}
    IN  ws[CHOOSE i \in bad : \A j \in bad : i <= j]

RECURSIVE encode(_)
encode(x) ==
    IF x.t = "str" THEN EncodeStr(x.val)
    ELSE IF x.t = "bytes" THEN BytesWire(x.val)
    ELSE IF x.t = "bool" THEN [type |-> "boolean", value |-> x]
    ELSE IF x.t = "int" THEN [type |-> "integer", value |-> x]
    ELSE IF x.t = "float" THEN [type |-> "double", value |-> FloatWire(x)]
    ELSE IF x.t = "NoneType" THEN [type |-> "NULL", value |-> x]
    ELSE IF x.t \in {"dict", "Array"} /\ DictKeysOk(x.val)
    THEN LET ws == [i \in 1..Len(x.val) |-> encode(x.val[i].val)]
         IN  IF \E i \in 1..Len(ws) : Raises(ws[i]) THEN FirstRaise(ws)
             ELSE [type |-> "array",
                   value |-> Dict([i \in 1..Len(ws) |->
                                      [k |-> x.val[i].k, val |-> ws[i]]])]
    ELSE IF x.t = "list"
    THEN LET ws == [i \in 1..Len(x.val) |-> encode(x.val[i])]
         IN  IF \E i \in 1..Len(ws) : Raises(ws[i]) THEN FirstRaise(ws)
             ELSE [type |-> "array", value |-> List(ws)]
    ELSE IF x.t = "PHPObject" /\ Owned(x)
    THEN [type |-> "object",
          value |-> [class |-> x.val.name, hash |-> x.val.hash]]
    ELSE IF x.t = "PHPResource" /\ Owned(x)
    THEN [type |-> "resource",
          value |-> [type |-> x.val.name, hash |-> x.val.hash]]
    ELSE IF x.t = "PHPClass" /\ Owned(x)
    THEN [type |-> "string", value |-> Str(Chars(x.val.name))]
    ELSE IF x.t = "function" /\ Owned(x)
    THEN [type |-> "string", value |-> Str(Chars(x.val.name))]
    ELSE IF x.t = "method" /\ Owned(x.val.self)
    THEN encode(List(<<x.val.self, Str(Chars(x.val.name))>>))
    ELSE Raise("RuntimeError")

(* str(ind): the digits, after a minus sign for a negative number. *)
RECURSIVE PyStr(_)
PyStr(n) == IF n < 0 THEN <<45>> \o PyStr(0 - n)
            ELSE IF n < 10 THEN <<48 + n>>
            ELSE PyStr(n \div 10) \o <<48 + (n % 10)>>

(* The index is used as the key as it is. *)
ArrayKeyAsGiven(index) == index

(* Array.__getitem__, __setitem__, __delitem__: an int index is converted  *)
(* to a string; a bool is an int, and str gives its name.                  *)
ArrayKey(index) ==
    IF index.t = "int" THEN Str(PyStr(index.val))
    ELSE IF index.t = "bool"
    THEN Str(IF index.val THEN Chars("True") ELSE Chars("False"))
    ELSE index

(* Array.__setitem__ on the entries of the ordered dictionary. *)
__setitem__(entries, index, value) ==
    LET key == ArrayKey(index)
        at == {i \in 1..Len(entries) : entries[i].k = key}
    IN  IF at = {} THEN Append(entries, [k |-> key, val |-> value])
        ELSE [i \in 1..Len(entries) |->
                 IF i \in at THEN [k |-> key, val |-> value] ELSE entries[i]]

(* OrderedDict(pairs): every pair is stored through __setitem__. *)
RECURSIVE ArrayOf(_, _)
ArrayOf(entries, pairs) ==
    IF pairs = <<>> THEN ArrayValue(entries)
    ELSE ArrayOf(__setitem__(entries, pairs[1].k, pairs[1].val), Tail(pairs))

(* Array.list: the indexes, as strings, are the keys. *)
Array_list(items) ==
    ArrayOf(<<>>, [i \in 1..Len(items) |->
                      [k |-> Str(PyStr(i - 1)), val |-> items[i]]])

(* Array.__getitem__ for an index that is not a slice: a negative int      *)
(* counts the values from the end, list(self.values())[index]; any other   *)
(* index is looked up as a key.                                            *)
__getitem__(arr, index) ==
    IF index.t = "int" /\ index.val < 0
    THEN IF Len(arr.val) + index.val < 0
         THEN [t |-> "exception", val |-> "IndexError"]
         ELSE arr.val[Len(arr.val) + index.val + 1].val
    ELSE LET key == ArrayKey(index)
             at == {i \in 1..Len(arr.val) : arr.val[i].k = key}
         IN  IF at = {} THEN [t |-> "exception", val |-> "KeyError"]
             ELSE arr.val[CHOOSE i \in at : TRUE].val

(* The key is looked for as it was given. *)
__delitem__AsGiven(entries, index) ==
    LET at == {i \in 1..Len(entries) : entries[i].k = index}
    IN  IF at = {} THEN [entries |-> entries, raised |-> "KeyError"]
        ELSE LET i == CHOOSE j \in at : TRUE
             IN  [entries |-> SubSeq(entries, 1, i - 1)
                                \o SubSeq(entries, i + 1, Len(entries)),
                  raised |-> ""]

(* Array.__delitem__ on the entries of the ordered dictionary. *)
__delitem__(entries, index) ==
    LET key == ArrayKey(index)
        at == {i \in 1..Len(entries) : entries[i].k = key}
    IN  IF at = {} THEN [entries |-> entries, raised |-> "KeyError"]
        ELSE LET i == CHOOSE j \in at : TRUE
             IN  [entries |-> SubSeq(entries, 1, i - 1)
                                \o SubSeq(entries, i + 1, Len(entries)),
                  raised |-> ""]

(* The index is compared with the key without str. *)
listableUnconverted(a) == \A i \in 1..Len(a.val) : PyInt(i - 1) = a.val[i].k

(* Array.listable: all(str(ind) == key for ind, key in enumerate(keys)) *)
listable(a) == \A i \in 1..Len(a.val) : Str(PyStr(i - 1)) = a.val[i].k

(* Array.__iter__: the values, in order. *)
__iter__(arr) == List([i \in 1..Len(arr.val) |-> arr.val[i].val])

(* The payload of a wire value of no known type is handed on. *)
UnknownTypeAsValue(w) == w.value

(* raise RuntimeError("Unknown type ..."), reached for a type no branch    *)
(* names and for an array whose payload is neither a list nor a dict.      *)
UnknownType(w) == [t |-> "exception", val |-> "RuntimeError"]

(* PHPBridge.decode as a function of the wire value.  The proxy of an      *)
(* object or resource is the one the registry hands out.                   *)
RECURSIVE decodeData(_)
decodeData(w) ==
    IF w.type \in {"string", "integer", "NULL", "boolean"} THEN w.value
    ELSE IF w.type = "double"
    THEN IF w.value = Str(Chars("INF")) THEN Float("inf")
         ELSE IF w.value = Str(Chars("-INF")) THEN Float("-inf")
         ELSE IF w.value = Str(Chars("NAN")) THEN Float("nan")
         ELSE w.value
    ELSE IF w.type = "array" /\ w.value.t \in {"list", "dict"}
    THEN LET n == Len(w.value.val)
             vs == [i \in 1..n |->
                       decodeData(IF w.value.t = "list" THEN w.value.val[i]
                                  ELSE w.value.val[i].val)]
             bad == {i \in 1..n : vs[i].t = "exception"}
         IN  IF bad # {} THEN vs[CHOOSE i \in bad : \A j \in bad : i <= j]
             ELSE IF w.value.t = "list" THEN Array_list(vs)
             ELSE ArrayOf(<<>>, [i \in 1..n |->
                                    [k |-> w.value.val[i].k, val |-> vs[i]]])
    ELSE IF w.type = "object"
    THEN [t |-> "PHPObject", val |-> [bridge |-> "self", name |-> w.value.class,
                                    hash |-> w.value.hash]]
    ELSE IF w.type = "resource"
    THEN [t |-> "PHPResource", val |-> [bridge |-> "self", name |-> w.value.type,
                                      hash |-> w.value.hash]]
    ELSE IF w.type = "bytes"
    THEN Str(bytes_decode(b64decode(w.value.val)))
    ELSE UnknownType(w)

(* The values given to encode. *)
StrAlphabet == {97, 233, 56515, 56489, 56575, 55296}
ByteAlphabet == {97, 195, 169, 255}

Texts == UNION {[1..n -> StrAlphabet] : n \in 0..MaxStrLen}
ByteStrings == UNION {[1..n -> ByteAlphabet] : n \in 0..MaxBytesLen}

Scalars ==
    {Str(s) : s \in Texts} \cup {Bytes(b) : b \in ByteStrings}
    \cup {Bool(TRUE), Bool(FALSE), PyInt(0), PyInt(1), None}
    \cup {Float(f) : f \in {"1.5", "inf", "-inf", "nan"}}

Bridges == {"self", "other"}

Remotes ==
    {[t |-> "PHPObject", val |-> [bridge |-> b, name |-> "Foo", hash |-> "o1"]]
        : b \in Bridges}
    \cup {[t |-> "PHPResource",
           val |-> [bridge |-> b, name |-> "stream", hash |-> "r1"]]
             : b \in Bridges}
    \cup {[t |-> "PHPClass", val |-> [bridge |-> b, name |-> "Foo"]]
             : b \in Bridges}
    \cup {[t |-> "function", val |-> [bridge |-> b, name |-> "strlen"]]
             : b \in Bridges \cup {"None"}}

Methods ==
    {[t |-> "method", val |-> [self |-> o, name |-> "bar"]]
        : o \in {r \in Remotes : r.t \in {"PHPObject", "PHPClass"}}}

(* A set: a value of no type that encode knows. *)
Unencodable == {[t |-> "set", val |-> <<>>]}

Leaves ==
    {Str(<<97>>), PyInt(1), Bool(TRUE)} \cup Remotes \cup Methods
    \cup Unencodable

Lists(items) == {List(s) : s \in UNION {[1..n -> items] : n \in 0..MaxItems}}

Keys == {Str(<<97>>), Str(<<49>>), PyInt(1), Bool(FALSE), Float("1.5")}

(* The keys of a dict are distinct. *)
Dicts(items) ==
    {Dict(s) : s \in {e \in UNION {[1..n -> [k : Keys, val : items]]
                                      : n \in 0..MaxItems} :
                         \A i, j \in 1..Len(e) : i # j => e[i].k # e[j].k}}

Nested ==
    Lists({List(<<l>>) : l \in Leaves}
          \cup {Dict(<<[k |-> Str(<<97>>), val |-> l]>>) : l \in Leaves})

EncodeInputs ==
    Scalars \cup Leaves \cup Lists(Leaves)
    \cup Dicts({PyInt(1)} \cup {r \in Remotes : r.t = "PHPObject"}) \cup Nested

(* The wire arrays the worker sends: lists, and mappings in key order and  *)
(* out of it.                                                              *)
ElementWires ==
    {[type |-> "string", value |-> Str(<<97>>)],
     [type |-> "integer", value |-> PyInt(1)],
     [type |-> "double", value |-> Str(Chars("INF"))]}

ArrayWires ==
    {[type |-> "array", value |-> List(s)]
        : s \in UNION {[1..n -> ElementWires] : n \in 0..MaxItems}}
    \cup {[type |-> "array", value |-> Dict(s)]
            : s \in {e \in UNION {[1..n -> [k : {Str(<<48>>), Str(<<49>>),
                                                 Str(<<120>>)},
                                            val : ElementWires]]
                                     : n \in 0..MaxItems} :
                        \A i, j \in 1..Len(e) : i # j => e[i].k # e[j].k}}

Indexes == {PyInt(0), PyInt(1), PyInt(2), Str(<<48>>), Str(<<49>>), Str(<<120>>)}

(* A value is about to be encoded, or a wire array has arrived. *)
InitCodec ==
    /\ SessionInit
    /\ CallersInit
    /\ \/ /\ data \in EncodeInputs
          /\ wire = NoWire
          /\ codecPc = "input"
       \/ /\ data = NoData
          /\ wire \in ArrayWires
          /\ codecPc = "arrived"
    /\ back = None
    /\ item = NoItem
    /\ ClassesInit
    /\ LaterInit("")

Encode ==
    /\ codecPc = "input"
    /\ wire' = encode(data)
    /\ codecPc' = "encoded"
    /\ UNCHANGED <<data, back, item>>

Decode ==
    /\ codecPc \in {"encoded", "arrived"}
    /\ ~Raises(wire)
    /\ back' = decodeData(wire)
    /\ codecPc' = "decoded"
    /\ UNCHANGED <<data, wire, item>>

GetItem ==
    /\ codecPc = "decoded"
    /\ back.t = "Array"
    /\ \E index \in Indexes :
         item' = [op |-> "getitem", index |-> index,
                  value |-> __getitem__(back, index)]
    /\ codecPc' = "accessed"
    /\ UNCHANGED <<data, wire, back>>

Iterate ==
    /\ codecPc = "decoded"
    /\ back.t = "Array"
    /\ item' = [op |-> "iter", index |-> None, value |-> __iter__(back)]
    /\ codecPc' = "accessed"
    /\ UNCHANGED <<data, wire, back>>

NextCodec ==
    \/ Encode /\ UNCHANGED <<coreVars, gcVars, callVars, callerVars, classVars,
                           laterVars>>
    \/ Decode /\ UNCHANGED <<coreVars, gcVars, callVars, callerVars, classVars,
                           laterVars>>
    \/ GetItem /\ UNCHANGED <<coreVars, gcVars, callVars, callerVars, classVars,
                           laterVars>>
    \/ Iterate /\ UNCHANGED <<coreVars, gcVars, callVars, callerVars, classVars,
                           laterVars>>

SpecCodec == InitCodec /\ [][NextCodec]_vars

----------------------------------------------------------------------------
(* Class resolution: PHPBridge.get_class and objects.create_class as the   *)
(* interpreter runs them, one activation of create_class per frame.  The   *)
(* session above resolves Foo, Exception and Throwable, whose signatures   *)
(* name no class that is not a base; here the worker's classes name each   *)
(* other in their bases and in the types of their method signatures.       *)

InitClasses ==
    /\ SessionInit
    /\ CallersInit
    /\ CodecInit
    /\ classTable \in ClassTables
    /\ frames = <<>>
    /\ classObjects = [u \in Requests |-> 0]
    /\ created = 0
    /\ resolved = [u \in Requests |-> 0]
    /\ returned = <<>>
    /\ asked = <<>>
    /\ LaterInit("")

(* The first class get_class returned for each name. *)
Resolved(ret) ==
    IF ret = <<>> THEN resolved
    ELSE [resolved EXCEPT ![ret[1].name] =
             IF @ = 0 THEN ret[1].class ELSE @]

(* get_class(name) called from a frame or from the application: a name in  *)
(* bridge.classes is returned at once, for any other name create_class is  *)
(* entered.                                                                *)
get_classCall(name, under) ==
    IF classObjects[name] # 0
    THEN /\ frames' = under
         /\ returned' = <<[name |-> name, class |-> classObjects[name]]>>
    ELSE /\ frames' = Append(under, [name |-> name, phase |-> "info",
                                     todo |-> <<>>])
         /\ returned' = <<>>

(* The application, or the decoding of an object, asks for a class. *)
Resolve ==
    /\ frames = <<>>
    /\ \E u \in Requests : get_classCall(u, <<>>)
    /\ asked' = <<>>
    /\ resolved' = Resolved(returned')
    /\ UNCHANGED <<classTable, classObjects, created>>

Top == frames[Len(frames)]
Below == SubSeq(frames, 1, Len(frames) - 1)

(* create_class up to the alias check: classInfo is sent and answered; a   *)
(* class known under its own name is stored under the name asked for, and  *)
(* create_class returns to get_class, which returns the class.             *)
ClassInfo ==
    /\ frames # <<>>
    /\ Top.phase = "info"
    /\ asked' = <<Top.name>>
    /\ IF classObjects[Canonical(Top.name)] # 0
       THEN /\ classObjects' = [classObjects EXCEPT ![Top.name] =
                                   classObjects[Canonical(Top.name)]]
            /\ frames' = Below
            /\ returned' = <<[name |-> Top.name,
                              class |-> classObjects[Canonical(Top.name)]]>>
       ELSE /\ frames' = Append(Below,
                               [Top EXCEPT !.phase = "bases",
                                   !.todo = classTable[Canonical(Top.name)].bases])
            /\ returned' = <<>>
            /\ UNCHANGED classObjects
    /\ resolved' = Resolved(returned')
    /\ UNCHANGED <<classTable, created>>

(* bases.append(bridge.get_class(...)) for the next parent, trait or       *)
(* interface.                                                              *)
NextBase ==
    /\ frames # <<>>
    /\ Top.phase = "bases"
    /\ Top.todo # <<>>
    /\ get_classCall(Head(Top.todo),
                     Append(Below, [Top EXCEPT !.todo = Tail(Top.todo)]))
    /\ asked' = <<>>
    /\ resolved' = Resolved(returned')
    /\ UNCHANGED <<classTable, classObjects, created>>

(* bridge.classes[unresolved_classname] = cls; bridge.classes[classname]   *)
(* = cls                                                                   *)
Register(u, obj) ==
    [x \in Requests |->
        IF x \in {u, Canonical(u)} THEN obj ELSE classObjects[x]]

(* All bases are there: cls = PHPClass(...) makes a new class, which is    *)
(* registered; the signatures come next.                                   *)
CreateClass ==
    /\ frames # <<>>
    /\ Top.phase = "bases"
    /\ Top.todo = <<>>
    /\ created' = created + 1
    /\ classObjects' = Register(Top.name, created + 1)
    /\ frames' = Append(Below,
                        [Top EXCEPT !.phase = "signatures",
                            !.todo = classTable[Canonical(Top.name)].types])
    /\ asked' = <<>>
    /\ returned' = <<>>
    /\ UNCHANGED <<classTable, resolved>>

(* make_signature -> parse_type_info: bridge.get_class(info['name']) for   *)
(* the next class named in a signature.                                    *)
NextSignature ==
    /\ frames # <<>>
    /\ Top.phase = "signatures"
    /\ Top.todo # <<>>
    /\ get_classCall(Head(Top.todo),
                     Append(Below, [Top EXCEPT !.todo = Tail(Top.todo)]))
    /\ asked' = <<>>
    /\ resolved' = Resolved(returned')
    /\ UNCHANGED <<classTable, classObjects, created>>

(* create_class returns; get_class returns self.classes[name]. *)
Return ==
    /\ frames # <<>>
    /\ Top.phase = "signatures"
    /\ Top.todo = <<>>
    /\ frames' = Below
    /\ returned' = <<[name |-> Top.name, class |-> classObjects[Top.name]]>>
    /\ asked' = <<>>
    /\ resolved' = Resolved(returned')
    /\ UNCHANGED <<classTable, classObjects, created>>

NextClasses ==
    \/ Resolve /\ UNCHANGED <<coreVars, gcVars, callVars, callerVars, codecVars,
                           laterVars>>
    \/ ClassInfo /\ UNCHANGED <<coreVars, gcVars, callVars, callerVars, codecVars,
                           laterVars>>
    \/ NextBase /\ UNCHANGED <<coreVars, gcVars, callVars, callerVars, codecVars,
                           laterVars>>
    \/ CreateClass /\ UNCHANGED <<coreVars, gcVars, callVars, callerVars, codecVars,
                           laterVars>>
    \/ NextSignature /\ UNCHANGED <<coreVars, gcVars, callVars, callerVars, codecVars,
                           laterVars>>
    \/ Return /\ UNCHANGED <<coreVars, gcVars, callVars, callerVars, codecVars,
                           laterVars>>

SpecClasses == InitClasses /\ [][NextClasses]_vars

----------------------------------------------------------------------------
(* Name resolution: PHPBridge.resolve, called for an attribute of a        *)
(* namespace module.                                                       *)

Paths == {"", "NS"}
Attrs == {"Foo", "strlen", "PHP_EOL", "argv", "nope", "odd"}

(* name = path + '\\' + name *)
Qualified(path, name) == IF path = "" THEN name ELSE path \o "\\" \o name

(* What the worker answers to resolveName. *)
KindOf(name) ==
    CASE name \in {"Foo", "NS\\Foo"} -> "class"
      [] name \in {"strlen", "NS\\strlen"} -> "func"
      [] name = "PHP_EOL" -> "const"
      [] name = "argv" -> "global"
      [] name = "odd" -> "label"
      [] OTHER -> "none"

(* self.cache, the ChainMap of the three dictionaries *)
cache == rsCache.classes \cup rsCache.functions \cup rsCache.constants

InitResolve ==
    /\ SessionInit
    /\ CallersInit
    /\ CodecInit
    /\ ClassesInit
    /\ ResolveInit
    /\ LaterInit("resolve")

(* resolve up to the point where receive blocks: a cached name is returned *)
(* without a command, for any other name resolveName is sent.              *)
ResolveName ==
    /\ rsPc = "idle"
    /\ \E path \in Paths, attr \in Attrs :
         LET name == Qualified(path, attr)
         IN  IF name \in cache
             THEN /\ rsOutcome' = [kind |-> "returned", what |-> name]
                  /\ rsWritten' = <<>>
                  /\ rsSent' = 0
                  /\ UNCHANGED <<rsPc, rsCall, rsUnread>>
             ELSE /\ rsOutcome' = NoResolveOutcome
                  /\ rsWritten' = <<[cmd |-> "resolveName", name |-> name]>>
                  /\ rsSent' = 1
                  /\ rsUnread' = rsUnread + 1
                  /\ rsCall' = [name |-> name, kind |-> ""]
                  /\ rsPc' = "resolving"
    /\ rsRead' = <<>>
    /\ UNCHANGED <<rsCache, rsFailed>>

(* The command get_class, get_function, get_const or get_global sends. *)
FetchCommand(kind) ==
    CASE kind = "class" -> "classInfo"
      [] kind = "func" -> "funcInfo"
      [] kind = "const" -> "getConst"
      [] kind = "global" -> "getGlobal"

(* A second resolveName is sent when the name was not found. *)
UnresolvedRetries(name) ==
    /\ rsOutcome' = NoResolveOutcome
    /\ rsWritten' = <<[cmd |-> "resolveName", name |-> name]>>
    /\ rsSent' = rsSent + 1
    /\ rsUnread' = rsUnread
    /\ UNCHANGED <<rsPc, rsCall, rsFailed>>

(* kind == 'none': raise AttributeError *)
Unresolved(name) ==
    /\ rsOutcome' = [kind |-> "raised", what |-> "AttributeError"]
    /\ rsWritten' = <<>>
    /\ rsUnread' = rsUnread - 1
    /\ rsPc' = "idle"
    /\ rsCall' = NoCall
    /\ rsFailed' = rsFailed \cup {name}
    /\ UNCHANGED rsSent

(* The reply to resolveName is read: the worker raised, or it told the     *)
(* kind of the name, and resolve goes on by the kind.                      *)
ResolveReply ==
    /\ rsPc = "resolving"
    /\ \E type \in {"result", "exception"} :
         IF type = "exception"
         THEN /\ rsRead' = <<[type |-> type, data |-> "Exception"]>>
              /\ rsOutcome' = [kind |-> "raised", what |-> "PHPThrowable"]
              /\ rsWritten' = <<>>
              /\ rsUnread' = rsUnread - 1
              /\ rsPc' = "idle"
              /\ rsCall' = NoCall
              /\ UNCHANGED <<rsSent, rsFailed>>
         ELSE LET kind == KindOf(rsCall.name)
              IN  /\ rsRead' = <<[type |-> type, data |-> kind]>>
                  /\ IF kind \in {"class", "func", "const", "global"}
                     THEN /\ rsOutcome' = NoResolveOutcome
                          /\ rsWritten' = <<[cmd |-> FetchCommand(kind),
                                             name |-> rsCall.name]>>
                          /\ rsUnread' = rsUnread
                          /\ rsPc' = "fetching"
                          /\ rsCall' = [rsCall EXCEPT !.kind = kind]
                          /\ UNCHANGED <<rsSent, rsFailed>>
                     ELSE IF kind = "none"
                     THEN Unresolved(rsCall.name)
                     ELSE /\ rsOutcome' = [kind |-> "raised",
                                           what |-> "RuntimeError"]
                          /\ rsWritten' = <<>>
                          /\ rsUnread' = rsUnread - 1
                          /\ rsPc' = "idle"
                          /\ rsCall' = NoCall
                          /\ UNCHANGED <<rsSent, rsFailed>>
    /\ UNCHANGED rsCache

(* The reply to classInfo, funcInfo, getConst or getGlobal is read: the    *)
(* class, function or constant is stored under the name and returned, a    *)
(* global is returned, or the worker raised.                               *)
FetchReply ==
    /\ rsPc = "fetching"
    /\ \E type \in {"result", "exception"} :
         IF type = "exception"
         THEN /\ rsRead' = <<[type |-> type, data |-> "Exception"]>>
              /\ rsOutcome' = [kind |-> "raised", what |-> "PHPThrowable"]
              /\ UNCHANGED rsCache
         ELSE /\ rsRead' = <<[type |-> type, data |-> rsCall.name]>>
              /\ rsOutcome' = [kind |-> "returned", what |-> rsCall.name]
              /\ rsCache' =
                    CASE rsCall.kind = "class" ->
                           [rsCache EXCEPT !.classes = @ \cup {rsCall.name}]
                      [] rsCall.kind = "func" ->
                           [rsCache EXCEPT !.functions = @ \cup {rsCall.name}]
                      [] rsCall.kind = "const" ->
                           [rsCache EXCEPT !.constants = @ \cup {rsCall.name}]
                      [] OTHER -> rsCache
    /\ rsWritten' = <<>>
    /\ rsUnread' = rsUnread - 1
    /\ rsPc' = "idle"
    /\ rsCall' = NoCall
    /\ UNCHANGED <<rsSent, rsFailed>>

NextResolve ==
    \/ ResolveName /\ UNCHANGED notResolve
    \/ ResolveReply /\ UNCHANGED notResolve
    \/ FetchReply /\ UNCHANGED notResolve

SpecResolve == InitResolve /\ [][NextResolve]_vars

----------------------------------------------------------------------------
(* The bases of a class: create_class collects PHPObject, the classes of   *)
(* the parent, the traits and the interfaces, and the bases of a           *)
(* predefined class, and removes the redundant ones.                       *)

(* Number of classes in the list besides PHPObject. *)
MaxBases == 3

(* Python classes: PHPObject and the builtin Exception; the predefined     *)
(* Throwable; classes made for the worker's classes: A, an interface I, B  *)
(* extends A, C extends B and implements I.                                *)
PyClasses == {"PHPObject", "Exception", "Throwable", "A", "I", "B", "C"}

(* __bases__ *)
BasesOf(c) ==
    CASE c = "Throwable" -> {"PHPObject", "Exception"}
      [] c \in {"A", "I"} -> {"PHPObject"}
      [] c = "B" -> {"A"}
      [] c = "C" -> {"B", "I"}
      [] OTHER -> {}

RECURSIVE issubclass(_, _)
issubclass(a, b) == a = b \/ \E p \in BasesOf(a) : issubclass(p, b)

(* The pairs for which the test of the loop holds. *)
RedundantPairs(bs) ==
    {pr \in (1..Len(bs)) \X (1..Len(bs)) :
        pr[1] # pr[2] /\ issubclass(bs[pr[1]], bs[pr[2]])}

(* The first of them in the order of product(enumerate, enumerate). *)
FirstPair(bs) ==
    CHOOSE pr \in RedundantPairs(bs) :
        \A q \in RedundantPairs(bs) :
            pr[1] < q[1] \/ (pr[1] = q[1] /\ pr[2] <= q[2])

(* The subclass of the pair is deleted. *)
RedundantIndexOfSubclass(bs) == FirstPair(bs)[1]

(* del bases[ind_b] *)
RedundantIndex(bs) == FirstPair(bs)[2]

BasesGiven ==
    {<<"PHPObject">> \o rest :
        rest \in UNION {[1..n -> PyClasses] : n \in 0..MaxBases}}

InitBases ==
    /\ SessionInit
    /\ CallersInit
    /\ CodecInit
    /\ ClassesInit
    /\ bases \in BasesGiven
    /\ given = bases
    /\ pruned = {}
    /\ prunePc = "pruning"
    /\ LaterInit("bases")

(* One pass of the for loop that finds a pair: the base is deleted and the *)
(* while loop starts over.                                                 *)
PruneStep ==
    /\ prunePc = "pruning"
    /\ RedundantPairs(bases) # {}
    /\ LET ind == RedundantIndex(bases)
       IN  /\ bases' = SubSeq(bases, 1, ind - 1)
                           \o SubSeq(bases, ind + 1, Len(bases))
           /\ pruned' = pruned \cup {bases[ind]}
    /\ UNCHANGED <<given, prunePc>>

(* The for loop ends without a pair: the else branch leaves the while loop. *)
PruneDone ==
    /\ prunePc = "pruning"
    /\ RedundantPairs(bases) = {}
    /\ prunePc' = "done"
    /\ UNCHANGED <<bases, given, pruned>>

NextBases ==
    \/ PruneStep /\ UNCHANGED notBases
    \/ PruneDone /\ UNCHANGED notBases

(* The interpreter goes on with the loop. *)
SpecBases == InitBases /\ [][NextBases]_vars /\ WF_vars(NextBases)

----------------------------------------------------------------------------
(* Two sessions in one interpreter: every PHPBridge has the dictionaries   *)
(* and the set that its __init__ made, the proxies live on one heap.       *)

(* Proxies the two bridges construct in one run. *)
MaxSessionProxies == 2

(* One dictionary and one set serve every bridge. *)
storeShared(all, s, own) == [x \in Sessions |-> own]

(* An attribute of self is assigned or changed in place. *)
store(all, s, own) == [all EXCEPT ![s] = own]

SessionsInitial ==
    /\ SessionInit
    /\ CallersInit
    /\ CodecInit
    /\ ClassesInit
    /\ SessionsInit
    /\ LaterInit("sessions")

(* decode of a wire value on bridge s: get_class stores the class of an    *)
(* object, get_object or get_resource looks the handle up in the bridge's  *)
(* _remotes and registers a new proxy there.                               *)
SessionDecode(s) ==
    /\ \E value \in ObjectValues \cup ResourceValues :
         LET g == IF value.type = "object"
                  THEN get_object(sRemotes[s], heap, value.name, value.hash)
                  ELSE get_resource(sRemotes[s], heap, value.name, value.hash)
         IN  /\ Len(g.proxies) <= MaxSessionProxies
             /\ sRemotes' = store(sRemotes, s, g.remotes)
             /\ heap' = g.proxies
             /\ owner' = IF Len(g.proxies) > Len(heap) THEN Append(owner, s)
                         ELSE owner
             /\ sCaches' = IF value.type = "object"
                           THEN store(sCaches, s,
                                      [sCaches[s] EXCEPT
                                          !.classes = @ \cup {value.name}])
                           ELSE sCaches
             /\ sYielded' = [sYielded EXCEPT ![s] = @ \cup {g.obj}]
             /\ sActed' = [session |-> s, op |-> "decode",
                           hash |-> value.hash, obj |-> g.obj, garbage |-> {}]
    /\ UNCHANGED sCollected

(* The application drops its last reference to a proxy. *)
SessionDrop ==
    /\ \E p \in 1..Len(heap) :
         /\ heap[p].st = "live"
         /\ heap' = [heap EXCEPT ![p] = [ident |-> heap[p].ident,
                                         cls |-> "", st |-> "dead"]]
         /\ sActed' = [session |-> owner[p], op |-> "drop",
                       hash |-> heap[p].ident, obj |-> p, garbage |-> {}]
    /\ UNCHANGED <<sRemotes, sCollected, sCaches, owner, sYielded>>

(* The finalize callback of a dead proxy runs: it is the _collect of the   *)
(* bridge that registered the proxy.                                       *)
SessionHook ==
    /\ \E p \in 1..Len(heap) :
         /\ heap[p].st = "dead"
         /\ heap' = [heap EXCEPT ![p] = [ident |-> "", cls |-> "",
                                         st |-> "finalized"]]
         /\ sCollected' = store(sCollected, owner[p],
                                sCollected[owner[p]] \cup {heap[p].ident})
         /\ sRemotes' = store(sRemotes, owner[p],
                              [sRemotes[owner[p]] EXCEPT ![heap[p].ident] = 0])
         /\ sActed' = [session |-> owner[p], op |-> "hook",
                       hash |-> heap[p].ident, obj |-> p, garbage |-> {}]
    /\ UNCHANGED <<sCaches, owner, sYielded>>

(* send on bridge s: the record lists the bridge's pending handles. *)
SessionSend(s) ==
    /\ sActed' = [session |-> s, op |-> "send", hash |-> "", obj |-> 0,
                  garbage |-> send("callFun", sCollected[s])[1].garbage]
    /\ UNCHANGED <<sRemotes, sCollected, sCaches, heap, owner, sYielded>>

(* receive on bridge s: the acknowledgments of the reply are applied. *)
SessionReceive(s) ==
    /\ \E keys \in SUBSET Handles :
         sCollected' = store(sCollected, s, ApplyCollected(sCollected[s], keys))
    /\ sActed' = [session |-> s, op |-> "receive", hash |-> "", obj |-> 0,
                  garbage |-> {}]
    /\ UNCHANGED <<sRemotes, sCaches, heap, owner, sYielded>>

(* get_function or get_const on bridge s for a name that is not in the     *)
(* dictionary.                                                             *)
SessionResolve(s) ==
    /\ \/ /\ "strlen" \notin sCaches[s].functions
          /\ sCaches' = store(sCaches, s,
                              [sCaches[s] EXCEPT
                                  !.functions = @ \cup {"strlen"}])
       \/ /\ "PHP_EOL" \notin sCaches[s].constants
          /\ sCaches' = store(sCaches, s,
                              [sCaches[s] EXCEPT
                                  !.constants = @ \cup {"PHP_EOL"}])
    /\ sActed' = [session |-> s, op |-> "resolve", hash |-> "", obj |-> 0,
                  garbage |-> {}]
    /\ UNCHANGED <<sRemotes, sCollected, heap, owner, sYielded>>

NextSessions ==
    \/ (\E s \in Sessions : SessionDecode(s)) /\ UNCHANGED notSessions
    \/ SessionDrop /\ UNCHANGED notSessions
    \/ SessionHook /\ UNCHANGED notSessions
    \/ (\E s \in Sessions : SessionSend(s)) /\ UNCHANGED notSessions
    \/ (\E s \in Sessions : SessionReceive(s)) /\ UNCHANGED notSessions
    \/ (\E s \in Sessions : SessionResolve(s)) /\ UNCHANGED notSessions

SpecSessions == SessionsInitial /\ [][NextSessions]_vars

----------------------------------------------------------------------------
(* Replies of any shape: receive and the decoding send_command asks for,   *)
(* as a function of the reply line.                                        *)

GoodWires ==
    ElementWires
    \cup {[type |-> "object",
           value |-> [class |-> "Exception", hash |-> "o1"]]}

(* A type no branch of decode names, and arrays whose payload is a string, *)
(* a number or null.                                                       *)
OddWires ==
    {[type |-> "float", value |-> Str(<<97>>)],
     [type |-> "array", value |-> Str(<<97>>)],
     [type |-> "array", value |-> PyInt(1)],
     [type |-> "array", value |-> None]}

ShapeWires ==
    GoodWires \cup OddWires
    \cup {[type |-> "array", value |-> List(s)]
            : s \in UNION {[1..n -> GoodWires \cup OddWires]
                              : n \in 0..MaxItems}}
    \cup {[type |-> "array",
           value |-> Dict(<<[k |-> Str(<<120>>), val |-> w]>>)]
            : w \in GoodWires \cup OddWires}
    \cup {[type |-> "array",
           value |-> List(<<[type |-> "array", value |-> List(<<w>>)]>>)]
            : w \in GoodWires \cup OddWires}

ShapeReplies == [type : {"result", "exception", "status"}, data : ShapeWires]

InitReplies ==
    /\ SessionInit
    /\ CallersInit
    /\ CodecInit
    /\ ClassesInit
    /\ RepliesInit
    /\ LaterInit("replies")

(* receive from the test of response['type'] on, and the decoding of its   *)
(* result in send_command.                                                 *)
receiveShaped(r, dec) ==
    IF r.type = "exception"
    THEN LET exception == decodeData(r.data)
         IN  IF exception.t = "exception"
             THEN [kind |-> "raised",
                   value |-> [t |-> "exception",
                              val |-> "FailedDecodingException"]]
             ELSE IF exception.t = "PHPObject"
                     /\ IsThrowable(exception.val.name)
             THEN [kind |-> "raised", value |-> exception]
             ELSE [kind |-> "raised",
                   value |-> [t |-> "exception", val |-> "TypeError"]]
    ELSE IF r.type = "result"
    THEN IF dec
         THEN LET result == decodeData(r.data)
              IN  IF result.t = "exception"
                  THEN [kind |-> "raised", value |-> result]
                  ELSE [kind |-> "returned", value |-> result]
         ELSE [kind |-> "returned", value |-> [t |-> "raw", val |-> r.data]]
    ELSE [kind |-> "raised",
          value |-> [t |-> "exception", val |-> "UnknownResponseType"]]

ReceiveShaped ==
    /\ replyPc = "arrived"
    /\ replyOutcome' = receiveShaped(reply, replyDecode)
    /\ replyPc' = "done"
    /\ UNCHANGED <<reply, replyDecode>>

(* send_command has written its record and the reply arrives. *)
NextReply ==
    /\ replyPc = "idle"
    /\ reply' \in ShapeReplies
    /\ replyDecode' \in BOOLEAN
    /\ replyOutcome' = NoReplyOutcome
    /\ replyPc' = "arrived"

(* The caller has what send_command returned or raised. *)
ReplyTaken ==
    /\ replyPc = "done"
    /\ reply' = NoReply
    /\ replyDecode' = FALSE
    /\ replyOutcome' = NoReplyOutcome
    /\ replyPc' = "idle"

NextReplies ==
    \/ ReceiveShaped /\ UNCHANGED notReplies
    \/ NextReply /\ UNCHANGED notReplies
    \/ ReplyTaken /\ UNCHANGED notReplies

SpecReplies == InitReplies /\ [][NextReplies]_vars

----------------------------------------------------------------------------
(* An Array in the hands of the application: made by Array.list or from   *)
(* pairs, then read, written and deleted from by index.                    *)

ArrayItems == {PyInt(1), Str(<<97>>)}
ArrayKeys == {Str(<<48>>), Str(<<49>>), Str(<<120>>)}
ArrayIndexes == {PyInt(0), PyInt(1), PyInt(-1), Bool(TRUE)} \cup ArrayKeys

ItemLists == UNION {[1..n -> ArrayItems] : n \in 0..MaxItems}
PairLists == UNION {[1..n -> [k : ArrayKeys, val : ArrayItems]]
                       : n \in 0..MaxItems}

InitArrays ==
    /\ SessionInit
    /\ CallersInit
    /\ CodecInit
    /\ ClassesInit
    /\ \/ \E xs \in ItemLists :
            /\ array = Array_list(xs)
            /\ arrMade = [by |-> "list", items |-> xs]
       \/ \E ps \in PairLists :
            /\ array = ArrayOf(<<>>, ps)
            /\ arrMade = [by |-> "pairs", items |-> ps]
    /\ arrItem = [op |-> "", index |-> None, value |-> None]
    /\ LaterInit("arrays")

ArrayGet ==
    /\ \E index \in ArrayIndexes :
         arrItem' = [op |-> "getitem", index |-> index,
                     value |-> __getitem__(array, index)]
    /\ UNCHANGED <<array, arrMade>>

ArraySet ==
    /\ \E index \in ArrayIndexes, value \in ArrayItems :
         /\ array' = ArrayValue(__setitem__(array.val, index, value))
         /\ arrItem' = [op |-> "setitem", index |-> index, value |-> value]
    /\ arrMade' = NoMade

ArrayDel ==
    /\ \E index \in ArrayIndexes :
         LET d == __delitem__(array.val, index)
         IN  /\ array' = ArrayValue(d.entries)
             /\ arrItem' = [op |-> "delitem", index |-> index,
                            value |-> IF d.raised = "" THEN None
                                      ELSE [t |-> "exception",
                                            val |-> d.raised]]
    /\ arrMade' = NoMade

ArrayListable ==
    /\ arrItem' = [op |-> "listable", index |-> None,
                   value |-> Bool(listable(array))]
    /\ UNCHANGED <<array, arrMade>>

NextArrays ==
    \/ ArrayGet /\ UNCHANGED notArrays
    \/ ArraySet /\ UNCHANGED notArrays
    \/ ArrayDel /\ UNCHANGED notArrays
    \/ ArrayListable /\ UNCHANGED notArrays

SpecArrays == InitArrays /\ [][NextArrays]_vars

----------------------------------------------------------------------------
(* Keyword arguments: utils.parse_args and the function create_function    *)
(* makes                                                                   *)

MaxParams == 2
MaxArgs == 2

ParamNames == <<"a", "b", "c">>
KeywordNames == {"a", "b", "z"}

(* Values the application passes: a number, a set (which encode does not   *)
(* know) and a proxy of an object of another session.                      *)
ArgValues ==
    {PyInt(1), [t |-> "set", val |-> <<>>],
     [t |-> "PHPObject",
      val |-> [bridge |-> "other", name |-> "Foo", hash |-> "o1"]]}

(* The default of a parameter: Parameter.empty, utils.unknown_param_default *)
(* or a value.                                                             *)
Defaults == {[kind |-> "empty", val |-> None],
             [kind |-> "unknown", val |-> None],
             [kind |-> "value", val |-> PyInt(0)]}

(* Signatures of up to MaxParams parameters, also those make_signature     *)
(* would not make: parse_args takes any.                                   *)
Signatures ==
    UNION {{[i \in 1..n |-> [name |-> ParamNames[i], default |-> ds[i]]] :
               ds \in [1..n -> Defaults]} : n \in 0..MaxParams}

ArgTuples == UNION {[1..n -> ArgValues] : n \in 0..MaxArgs}

KeywordDicts == UNION {[names -> {PyInt(2)}] : names \in SUBSET KeywordNames}

TypeError == [raised |-> "TypeError", args |-> <<>>, iterations |-> 0]

(* When the parameters have run out the keyword arguments that are left    *)
(* are dropped one by one.                                                 *)
RECURSIVE parse_argsLoopDrops(_, _, _, _)
parse_argsLoopDrops(parameters, args, kwargs, iterations) ==
    IF DOMAIN kwargs = {}
    THEN [raised |-> "", args |-> args, iterations |-> iterations]
    ELSE LET index == Len(args)
         IN  IF index >= Len(parameters)
             THEN LET key == CHOOSE k \in DOMAIN kwargs : TRUE
                  IN  parse_argsLoopDrops(
                          parameters, args,
                          [k \in DOMAIN kwargs \ {key} |-> kwargs[k]],
                          iterations + 1)
             ELSE LET cur_param == parameters[index + 1]
                      name == cur_param.name
                      default == cur_param.default
                  IN  IF default.kind = "unknown"
                      THEN [TypeError EXCEPT !.iterations = iterations + 1]
                      ELSE IF name \in DOMAIN kwargs
                      THEN parse_argsLoopDrops(
                               parameters, Append(args, kwargs[name]),
                               [k \in DOMAIN kwargs \ {name} |-> kwargs[k]],
                               iterations + 1)
                      ELSE IF default.kind = "empty"
                      THEN [TypeError EXCEPT !.iterations = iterations + 1]
                      ELSE parse_argsLoopDrops(
                               parameters, Append(args, default.val), kwargs,
                               iterations + 1)

(* The loop of parse_args: while kwargs is not empty, the parameter at     *)
(* position len(args) is filled from kwargs or from its default.           *)
(* iterations counts the passes through the loop body made so far.         *)
RECURSIVE parse_argsLoop(_, _, _, _)
parse_argsLoop(parameters, args, kwargs, iterations) ==
    IF DOMAIN kwargs = {}
    THEN [raised |-> "", args |-> args, iterations |-> iterations]
    ELSE LET index == Len(args)
         IN  IF index >= Len(parameters)
             THEN [TypeError EXCEPT !.iterations = iterations + 1]
             ELSE LET cur_param == parameters[index + 1]
                      name == cur_param.name
                      default == cur_param.default
                  IN  IF default.kind = "unknown"
                      THEN [TypeError EXCEPT !.iterations = iterations + 1]
                      ELSE IF name \in DOMAIN kwargs
                      THEN parse_argsLoop(
                               parameters, Append(args, kwargs[name]),
                               [k \in DOMAIN kwargs \ {name} |-> kwargs[k]],
                               iterations + 1)
                      ELSE IF default.kind = "empty"
                      THEN [TypeError EXCEPT !.iterations = iterations + 1]
                      ELSE parse_argsLoop(
                               parameters, Append(args, default.val), kwargs,
                               iterations + 1)

(* What inspect.Signature.bind does with positional arguments only: more   *)
(* arguments than parameters, or a parameter without a value, are errors.  *)
parse_argsBound(sig, args, kwargs) ==
    IF DOMAIN kwargs = {}
    THEN IF \/ Len(args) > Len(sig)
            \/ \E i \in Len(args) + 1..Len(sig) : sig[i].default.kind # "value"
         THEN TypeError
         ELSE [raised |-> "",
               args |-> args \o [i \in 1..Len(sig) - Len(args) |->
                                    sig[Len(args) + i].default.val],
               iterations |-> 0]
    ELSE parse_argsLoop(sig, args, kwargs, 0)

parse_args(sig, args, kwargs) ==
    IF DOMAIN kwargs = {}
    THEN [raised |-> "", args |-> args, iterations |-> 0]
    ELSE parse_argsLoop(sig, args, kwargs, 0)

InitArgs ==
    /\ SessionInit
    /\ CallersInit
    /\ CodecInit
    /\ ClassesInit
    /\ ArgsInit
    /\ LaterInit("args")

(* The application calls func with positional and keyword arguments;      *)
(* func.__signature__ is what make_signature made of the worker's          *)
(* description of the function.                                            *)
FuncCall ==
    /\ argsPc = "idle"
    /\ \E sig \in Signatures, args \in ArgTuples, kwargs \in KeywordDicts :
         /\ signature' = sig
         /\ orig_args' = args
         /\ orig_kwargs' = kwargs
    /\ parsed' = NotParsed
    /\ callRecord' = <<>>
    /\ argsPc' = "called"

(* args = utils.parse_args(func.__signature__, args, kwargs) *)
FuncParse ==
    /\ argsPc = "called"
    /\ parsed' = parse_args(signature, orig_args, orig_kwargs)
    /\ argsPc' = IF parsed'.raised = "" THEN "parsed" ELSE "raised"
    /\ UNCHANGED <<signature, orig_args, orig_kwargs, callRecord>>

(* The record is written with the arguments that were encoded before      *)
(* encode raised.                                                          *)
FuncSendWritesFirst ==
    /\ argsPc = "parsed"
    /\ LET ws == [i \in 1..Len(parsed.args) |-> encode(parsed.args[i])]
           bad == {i \in 1..Len(ws) : Raises(ws[i])}
       IN  /\ callRecord' =
                  <<[cmd |-> "callFun",
                     args |-> SelectSeq(ws, LAMBDA w : ~Raises(w))]>>
           /\ argsPc' = IF bad # {} THEN "unencodable" ELSE "sent"
    /\ UNCHANGED <<signature, orig_args, orig_kwargs, parsed>>

(* bridge.send_command('callFun', {'name': name, 'args': [bridge.encode(arg) *)
(* for arg in args]}, decode=True): the argument of send_command is        *)
(* evaluated before send_command is called, so an encode that raises ends  *)
(* func before send runs.                                                  *)
FuncSend ==
    /\ argsPc = "parsed"
    /\ LET ws == [i \in 1..Len(parsed.args) |-> encode(parsed.args[i])]
           bad == {i \in 1..Len(ws) : Raises(ws[i])}
       IN  IF bad # {}
           THEN /\ callRecord' = <<>>
                /\ argsPc' = "unencodable"
           ELSE /\ callRecord' = <<[cmd |-> "callFun", args |-> ws]>>
                /\ argsPc' = "sent"
    /\ UNCHANGED <<signature, orig_args, orig_kwargs, parsed>>

(* func returns what send_command returned, or raises what parse_args or  *)
(* encode raised; the application can call again.                          *)
FuncReturn ==
    /\ argsPc \in {"sent", "raised", "unencodable"}
    /\ signature' = <<>>
    /\ orig_args' = <<>>
    /\ orig_kwargs' = NoKwargs
    /\ parsed' = NotParsed
    /\ callRecord' = <<>>
    /\ argsPc' = "idle"

NextArgs ==
    \/ FuncCall /\ UNCHANGED notArgs
    \/ FuncParse /\ UNCHANGED notArgs
    \/ FuncSend /\ UNCHANGED notArgs
    \/ FuncReturn /\ UNCHANGED notArgs

SpecArgs == InitArgs /\ [][NextArgs]_vars

----------------------------------------------------------------------------
(* Signatures: functions.make_signature and functions.different_name.  A   *)
(* name is the sequence of its letter runs and digits, so that a name with *)
(* str(n) appended and a foreign name that ends in that digit are equal.   *)

MaxSigParams == 3

Digits == <<"0", "1", "2", "3", "4", "5", "6", "7", "8", "9">>

(* str(n) of a number below one hundred *)
DigitsOf(n) ==
    IF n < 10 THEN <<Digits[n + 1]>>
    ELSE <<Digits[(n \div 10) + 1], Digits[(n % 10) + 1]>>

ForeignNames == {<<"a">>, <<"a", "2">>, <<"self">>}

(* What the worker reports of a parameter: required, with a default, with  *)
(* a default but not optional (a required parameter follows it), optional  *)
(* without a visible default, variadic.                                    *)
ParamFlags ==
    {[hasDefault |-> FALSE, isOptional |-> FALSE, variadic |-> FALSE],
     [hasDefault |-> TRUE, isOptional |-> TRUE, variadic |-> FALSE],
     [hasDefault |-> TRUE, isOptional |-> FALSE, variadic |-> FALSE],
     [hasDefault |-> FALSE, isOptional |-> TRUE, variadic |-> FALSE],
     [hasDefault |-> FALSE, isOptional |-> TRUE, variadic |-> TRUE]}

ParamInfos == [name : ForeignNames, flags : ParamFlags]

(* info['params']: only the last parameter of a PHP function is variadic. *)
ParamLists ==
    UNION {{ps \in [1..n -> ParamInfos] :
               \A i \in 1..n : ps[i].flags.variadic => i = n}
              : n \in 0..MaxSigParams}

(* add_first: none for a function, 'self' for a method, 'cls' for __new__ *)
FirstNames == {<<>>, <<"self">>, <<"cls">>}

(* A repeated name gets "2" appended, whatever is in use. *)
different_nameOnce(name, used_names) ==
    IF name \notin used_names THEN name ELSE name \o DigitsOf(2)

RECURSIVE NumberedFrom(_, _, _)
NumberedFrom(name, used_names, n) ==
    IF name \o DigitsOf(n) \notin used_names THEN name \o DigitsOf(n)
    ELSE NumberedFrom(name, used_names, n + 1)

(* The loop over different_name(param['name']) in make_signature: the      *)
(* first of name, name2, name3, ... that is not in used_names.             *)
different_name(name, used_names) ==
    IF name \notin used_names THEN name
    ELSE NumberedFrom(name, used_names, 2)

(* The default is left as it is found. *)
RequiredDefaultLeft(default_required, default, variadic) == default

(* A parameter without default after one with a default gets the unknown   *)
(* default, unless it is variadic.                                         *)
RequiredDefault(default_required, default, variadic) ==
    IF default_required /\ default = "empty" /\ ~variadic THEN "unknown"
    ELSE default

(* One pass of the loop over info['params']. *)
AddParameter(acc, param) ==
    LET param_name == different_name(param.name, acc.used_names)
        found == IF param.flags.hasDefault THEN "value" ELSE "empty"
        optional == IF /\ param.flags.isOptional
                       /\ ~param.flags.variadic
                       /\ found = "empty"
                    THEN "unknown" ELSE found
        default == RequiredDefault(acc.default_required, optional,
                                   param.flags.variadic)
    IN  [parameters |->
             Append(acc.parameters,
                    [name |-> param_name,
                     kind |-> IF param.flags.variadic THEN "VAR_POSITIONAL"
                              ELSE "POSITIONAL_OR_KEYWORD",
                     default |-> default]),
         used_names |-> acc.used_names \cup {param_name},
         default_required |-> acc.default_required \/ default # "empty"]

RECURSIVE AddParameters(_, _)
AddParameters(acc, params) ==
    IF params = <<>> THEN acc
    ELSE AddParameters(AddParameter(acc, Head(params)), Tail(params))

(* make_signature: the parameters of the Signature it returns. *)
make_signature(params, add_first) ==
    AddParameters(
        IF add_first # <<>>
        THEN [parameters |-> <<[name |-> add_first,
                                kind |-> "POSITIONAL_OR_KEYWORD",
                                default |-> "empty"]>>,
              used_names |-> {add_first}, default_required |-> FALSE]
        ELSE [parameters |-> <<>>, used_names |-> {},
              default_required |-> FALSE],
        params).parameters

InitSignatures ==
    /\ SessionInit
    /\ CallersInit
    /\ CodecInit
    /\ ClassesInit
    /\ SignaturesInit
    /\ LaterInit("signatures")

(* The worker's description of a function or method has arrived. *)
Described ==
    /\ sigPc = "idle"
    /\ \E params \in ParamLists, add_first \in FirstNames :
         sigInfo' = [params |-> params, add_first |-> add_first]
    /\ sigMade' = <<>>
    /\ sigPc' = "described"

(* func.__signature__ = make_signature(bridge, info) *)
MakeSignature ==
    /\ sigPc = "described"
    /\ sigMade' = make_signature(sigInfo.params, sigInfo.add_first)
    /\ sigPc' = "made"
    /\ UNCHANGED sigInfo

(* The next function or method is created. *)
NextDescription ==
    /\ sigPc = "made"
    /\ sigInfo' = NoInfo
    /\ sigMade' = <<>>
    /\ sigPc' = "idle"

NextSignatures ==
    \/ Described /\ UNCHANGED notSignatures
    \/ MakeSignature /\ UNCHANGED notSignatures
    \/ NextDescription /\ UNCHANGED notSignatures

SpecSignatures == InitSignatures /\ [][NextSignatures]_vars

----------------------------------------------------------------------------
(* The registry: identity of proxies *)

LiveProxies(h) ==
    {p \in 1..Len(proxies) : proxies[p].st = "live" /\ proxies[p].ident = h}

(* C2: a decode of handle H, made while a proxy that an earlier decode of  *)
(* H returned is still referenced, returns that very proxy: no second      *)
(* proxy is constructed.                                                   *)
C2_IdentityPreservingDecode ==
    [][decoded' # <<>> =>
          \A q \in LiveProxies(decoded'[1].hash) : decoded'[1].obj = q]_vars

(* C3: in every reachable state there is at most one live proxy per        *)
(* handle.                                                                 *)
C3_AtMostOneLiveProxy ==
    \A h \in Handles : Cardinality(LiveProxies(h)) <= 1

(* C4: no step, and in particular no hook that fires for a dead proxy of   *)
(* handle H, removes or replaces the handle-map entry of a live proxy      *)
(* registered for H.                                                       *)
C4_HookKeepsLiveEntry ==
    [][\A h \in Handles :
          (_remotes[h] # 0 /\ proxies[_remotes[h]].st = "live")
              => _remotes'[h] = _remotes[h]]_vars

(* C38: the proxy a decode returns matches the wire value: for an object   *)
(* of class C it is an instance of the class made for C, for a resource it *)
(* is a resource proxy, whatever proxy is tracked under the handle.        *)
C38_ProxyMatchesWire ==
    [][decoded' # <<>> =>
          proxies'[decoded'[1].obj].cls =
              IF decoded'[1].type = "object" THEN decoded'[1].name
              ELSE "resource"]_vars

(* C34: a reply that acknowledges handle H and carries H in its payload    *)
(* leaves H out of the pending set, and the proxy the decode returned is   *)
(* live and registered under H.                                            *)
C34_AckBeforeDecode ==
    [][\A h \in Handles :
          (/\ readLine' # <<>>
           /\ h \in readLine'[1].collected
           /\ decoded' # <<>>
           /\ decoded'[1].hash = h)
              => /\ h \notin _collected'
                 /\ _remotes'[h] = decoded'[1].obj
                 /\ proxies'[decoded'[1].obj].st = "live"]_vars

(* The reply to a command that listed o1 as garbage acknowledged o1 and    *)
(* carried o1: a new proxy was made for it.                                *)
C34_Witness ==
    /\ readLine # <<>>
    /\ "o1" \in readLine[1].collected
    /\ gc["o1"] = "acked"
    /\ decoded # <<>>
    /\ decoded[1].hash = "o1"
    /\ decoded[1].obj > 1
    /\ _remotes["o1"] = decoded[1].obj
    /\ "o1" \notin _collected

(* C35: no handle is at once pending collection and registered in the      *)
(* handle map with a live proxy.                                           *)
C35_PendingHasNoLiveProxy ==
    \A h \in Handles :
        ~(/\ h \in _collected
          /\ _remotes[h] # 0
          /\ proxies[_remotes[h]].st = "live")

----------------------------------------------------------------------------
(* The PendingCollection set *)

(* C36: a reply of type exception, or of an unknown type, that             *)
(* acknowledges a pending handle removes it from the pending set although  *)
(* the call fails.                                                         *)
C36_AcksAppliedWhateverType ==
    [][(/\ readLine' # <<>>
        /\ ~readLine'[1].eof
        /\ readLine'[1].type \in {"exception", "bogus"})
       => /\ \A h \in readLine'[1].collected : h \notin _collected'
          /\ pc' = "idle" => outcome'.kind = "raised"]_vars

(* A reply of an unknown type acknowledged o1 after the hook of its proxy  *)
(* had run: the call failed and o1 is not pending any more.                *)
C36_Witness ==
    /\ readLine # <<>>
    /\ readLine[1].type = "bogus"
    /\ "o1" \in readLine[1].collected
    /\ gc["o1"] = "acked"
    /\ outcome.kind = "raised"
    /\ "o1" \notin _collected

(* C5: a handle leaves the pending set only in a step that processes a     *)
(* reply whose collected field contains it.                                *)
C5_OnlyAckRemoves ==
    [][\A h \in Handles :
          (h \in _collected /\ h \notin _collected')
              => /\ readLine' # <<>>
                 /\ ~readLine'[1].eof
                 /\ h \in readLine'[1].collected]_vars

(* A reply that acknowledges h has just been processed, after the hook of  *)
(* a proxy of h had run.                                                   *)
C5_Witness ==
    \E h \in Handles :
        /\ gc[h] = "acked"
        /\ readLine # <<>>
        /\ h \in readLine[1].collected
        /\ h \notin _collected

(* C6: the garbage field of every record written, nested classInfo         *)
(* commands included, is exactly the pending set at the moment of the      *)
(* write.                                                                  *)
C6_GarbageIsPending ==
    [][written' # <<>> => written'[1].garbage = _collected']_vars

(* A nested classInfo record was written in the step that processed an     *)
(* acknowledgment of o1, with r1 still pending.                            *)
C6_Witness ==
    /\ written # <<>>
    /\ written[1].cmd = "classInfo"
    /\ written[1].garbage = {"r1"}
    /\ readLine # <<>>
    /\ readLine[1].collected = {"o1"}
    /\ gc["o1"] = "acked"

(* C7: processing a reply leaves exactly the pending handles the reply     *)
(* does not acknowledge, and an acknowledgment of a handle that is not     *)
(* pending raises nothing: a result that needs no decoding is returned.    *)
C7_ReplyRemovesAcked ==
    [][(readLine' # <<>> /\ ~readLine'[1].eof) =>
          /\ _collected' = _collected \ readLine'[1].collected
          /\ (readLine'[1].type = "result" /\ pc = "wait" /\ ~decodeFlag)
                 => outcome'.kind = "returned"]_vars

(* A reply was processed that acknowledged r1, pending since its hook, and *)
(* o1, of which no proxy was ever collected; the call returned.            *)
C7_Witness ==
    /\ readLine # <<>>
    /\ readLine[1].collected = {"o1", "r1"}
    /\ gc["o1"] = "none"
    /\ gc["r1"] = "acked"
    /\ _collected = {}
    /\ outcome.kind = "returned"

(* A wire value that has a type decode does not know or an array payload   *)
(* that is neither a list nor a mapping, at any depth.                     *)
RECURSIVE OddShaped(_)
OddShaped(w) ==
    IF w.type = "array"
    THEN IF w.value.t = "list"
         THEN \E i \in 1..Len(w.value.val) : OddShaped(w.value.val[i])
         ELSE IF w.value.t = "dict"
         THEN \E i \in 1..Len(w.value.val) : OddShaped(w.value.val[i].val)
         ELSE TRUE
    ELSE w.type \notin {"string", "integer", "NULL", "boolean", "double",
                        "object", "resource", "bytes"}

(* C27: a reply whose type is neither result nor exception, and a reply    *)
(* whose payload, where the call decodes it, has an unknown type or an     *)
(* array payload that is neither a list nor a mapping, makes the call      *)
(* raise; nothing is returned.                                             *)
C27_OddReplyFails ==
    (replyPc = "done"
        /\ \/ reply.type \notin {"result", "exception"}
           \/ reply.type = "exception" /\ OddShaped(reply.data)
           \/ reply.type = "result" /\ replyDecode /\ OddShaped(reply.data))
    => replyOutcome.kind = "raised"

(* A result whose list holds a list with a value of an unknown type was    *)
(* decoded: RuntimeError.                                                  *)
C27_Witness ==
    /\ replyPc = "done"
    /\ reply.type = "result"
    /\ replyDecode
    /\ reply.data =
          [type |-> "array",
           value |-> List(<<[type |-> "array",
                             value |-> List(<<[type |-> "float",
                                               value |-> Str(<<97>>)]>>)]>>)]
    /\ replyOutcome = [kind |-> "raised",
                       value |-> [t |-> "exception", val |-> "RuntimeError"]]

(* C26: pending handles never expire: a pending handle stays pending until *)
(* a reply that acknowledges it is processed, and every record written     *)
(* lists every handle that is pending and was not acknowledged by the      *)
(* reply processed in the same step, also after a receive has failed.      *)
C26_PendingNeverExpires ==
    [][\A h \in _collected :
          \/ readLine' # <<>> /\ h \in readLine'[1].collected
          \/ /\ h \in _collected'
             /\ written' # <<>> => h \in written'[1].garbage]_vars

(* After two reads of a closed stream a further command is written, and    *)
(* it lists both handles, which have been pending since their hooks ran.   *)
C26_Witness ==
    /\ eofReads = 2
    /\ written # <<>>
    /\ written[1].garbage = {"o1", "r1"}
    /\ gc["o1"] = "hooked"
    /\ gc["r1"] = "hooked"

----------------------------------------------------------------------------
(* Failures *)

(* C8 as stated: a reply of type exception makes the call raise the        *)
(* decoded value the reply carries.                                        *)
C8_RaisesDecodedValue ==
    outcome.replyType = "exception" =>
        /\ outcome.kind = "raised"
        /\ outcome.what = "PHPThrowable"
        /\ outcome.proxy # 0
        /\ proxies[outcome.proxy].ident = outcome.replyHash

(* C8 amended: a reply of type exception always makes the call raise.  It  *)
(* raises the proxy the value decoded to when that proxy is throwable, a   *)
(* TypeError when it is not, and "Failed decoding exception" when the      *)
(* decoding itself failed.                                                 *)
C8_FaultPropagation ==
    outcome.replyType = "exception" =>
        /\ outcome.kind = "raised"
        /\ IF decoded = <<>>
           THEN outcome.what = "FailedDecodingException" /\ outcome.proxy = 0
           ELSE IF IsThrowable(proxies[decoded[1].obj].cls)
           THEN /\ outcome.what = "PHPThrowable"
                /\ outcome.proxy = decoded[1].obj
                /\ proxies[outcome.proxy].ident = outcome.replyHash
                /\ proxies[outcome.proxy].st = "live"
           ELSE outcome.what = "TypeError" /\ outcome.proxy = 0

(* A call has just raised the proxy of the thrown object, whose class was  *)
(* materialized for it.                                                    *)
C8_Witness ==
    /\ outcome.replyType = "exception"
    /\ outcome.what = "PHPThrowable"
    /\ readLine # <<>>
    /\ {"Exception", "Throwable"} \subseteq classes

C10_NoRawPipeError ==
    outcome.what # "BrokenPipeError"

(* C11: a reply line that is not JSON makes the call fail with the         *)
(* connection-lost failure.                                                *)
C11_MalformedIsConnectionLost ==
    (readLine # <<>> /\ readLine[1].type = "malformed")
        => (outcome.kind = "raised" /\ outcome.what = "ConnectionClosed")

----------------------------------------------------------------------------
(* Concurrent callers *)

(* C12: with several callers on one session no second record is written    *)
(* before the reply to the first has been read, and the reply a caller     *)
(* reads is the reply to its own record.                                   *)
C12_CallersSerialized ==
    /\ Len(commandPipe) + Len(replyPipe) <= 1
    /\ \A c \in Callers : got[c] \in {"", c}

----------------------------------------------------------------------------
(* One caller: records and reads alternate *)

(* C13 as stated: records written minus replies read is 0 or 1 at every    *)
(* point, and a record is written only when it is 0.                       *)
C13_WritesMinusRepliesRead ==
    [][/\ unanswered' \in {0, 1}
       /\ written' # <<>> => unanswered - LinesRead = 0]_vars

(* C13 amended: records written minus reads made, a read that returns the  *)
(* empty result of a closed stream counted, is 0 or 1 at every point, and  *)
(* a record is written only when it is 0, nested classInfo records         *)
(* included.                                                               *)
C13_WritesAndReadsAlternate ==
    [][/\ awaiting' \in {0, 1}
       /\ written' # <<>> => awaiting - ReadsMade = 0]_vars

(* The classInfo record for Throwable has just been written in the step    *)
(* that read the reply to the classInfo record for Exception, while an     *)
(* exception reply is being decoded.                                       *)
C13_Witness ==
    /\ written # <<>>
    /\ written[1].cmd = "classInfo"
    /\ readLine # <<>>
    /\ stack = <<"Exception", "Throwable">>
    /\ pending.mode = "exception"
    /\ awaiting = 1

----------------------------------------------------------------------------
(* The wire codec *)

IsScalar(x) == x.t \in {"str", "bytes", "bool", "int", "float", "NoneType"}

(* The text can be encoded as UTF-8: it holds no surrogate. *)
ValidText(s) == \A i \in 1..Len(s) : ~IsSurrogate(s[i])

(* Two neighbouring escapes stand for bytes that are the UTF-8 of a        *)
(* character.                                                              *)
SpellsText(s) ==
    \E i \in 1..Len(s) :
        /\ i < Len(s)
        /\ IsEscape(s[i]) /\ s[i] >= 56320 + 194 /\ s[i] <= 56320 + 223
        /\ IsEscape(s[i + 1]) /\ s[i + 1] <= 56320 + 191

(* C15 as stated: decode(encode(v)) = v for every scalar v, bytes          *)
(* included, with the infinities and NaN sent as 'INF', '-INF' and 'NAN'.  *)
C15_ScalarRoundTrip ==
    (codecPc = "decoded" /\ IsScalar(data)) =>
        /\ back = data
        /\ data = Float("inf") => wire.value = Str(Chars("INF"))
        /\ data = Float("-inf") => wire.value = Str(Chars("-INF"))
        /\ data = Float("nan") => wire.value = Str(Chars("NAN"))

(* C15 amended: decode(encode(v)) = v for every scalar v that encode       *)
(* accepts, except that a bytes value comes back as the text whose         *)
(* surrogate-escaped encoding it is, and a text whose escapes spell a      *)
(* character comes back as a different text; the infinities and NaN are    *)
(* sent as 'INF', '-INF' and 'NAN'.                                        *)
C15_RoundTripExceptBytes ==
    (codecPc = "decoded" /\ IsScalar(data)) =>
        /\ data.t = "bytes" =>
              /\ back.t = "str"
              /\ str_encode(back.val, "surrogateescape")
                     = [ok |-> TRUE, bytes |-> data.val]
        /\ (data.t = "str" /\ SpellsText(data.val)) =>
              (back.t = "str" /\ back # data)
        /\ (data.t # "bytes" /\ ~(data.t = "str" /\ SpellsText(data.val))) =>
              back = data
        /\ data = Float("inf") => wire.value = Str(Chars("INF"))
        /\ data = Float("-inf") => wire.value = Str(Chars("-INF"))
        /\ data = Float("nan") => wire.value = Str(Chars("NAN"))

(* A text with an escaped byte has gone through the bytes tag and come     *)
(* back as it was.                                                         *)
C15_Witness ==
    /\ codecPc = "decoded"
    /\ data = Str(<<97, 56575>>)
    /\ wire.type = "bytes"
    /\ back = data

(* C16: encode gives a text the string tag exactly when it is valid, and   *)
(* every other text the bytes tag with the base64 of its bytes.            *)
C16_StringTagIffValid ==
    (codecPc = "encoded" /\ data.t = "str") =>
        IF ValidText(data.val)
        THEN wire = [type |-> "string", value |-> data]
        ELSE /\ wire.type = "bytes"
             /\ b64decode(wire.value.val)
                    = str_encode(data.val, "surrogateescape").bytes

(* The one tag of each type of value. *)
TagOf(x) ==
    CASE x.t = "str" -> IF ValidText(x.val) THEN "string" ELSE "bytes"
      [] x.t = "bytes" -> "bytes"
      [] x.t = "bool" -> "boolean"
      [] x.t = "int" -> "integer"
      [] x.t = "float" -> "double"
      [] x.t = "NoneType" -> "NULL"
      [] x.t \in {"dict", "list", "method"} -> "array"
      [] x.t = "PHPObject" -> "object"
      [] x.t = "PHPResource" -> "resource"
      [] x.t \in {"PHPClass", "function"} -> "string"
      [] OTHER -> "none"

KeyTypes(x) == {x.val[i].k.t : i \in 1..Len(x.val)}
PlainDict(x) == x.t = "dict" /\ \A i \in 1..Len(x.val) : x.val[i].val = PyInt(1)

RECURSIVE HoldsForeign(_)
HoldsForeign(x) ==
    IF x.t \in {"PHPObject", "PHPResource", "PHPClass", "function"}
    THEN x.val.bridge # "self"
    ELSE IF x.t = "method" THEN HoldsForeign(x.val.self)
    ELSE IF x.t = "list"
    THEN \E i \in 1..Len(x.val) : HoldsForeign(x.val[i])
    ELSE IF x.t = "dict"
    THEN \E i \in 1..Len(x.val) : HoldsForeign(x.val[i].val)
    ELSE FALSE

(* C18: encode raises for every value that is or holds, at any depth of    *)
(* lists and mappings, an object, resource, class, function or bound       *)
(* method of another session.                                              *)
C18_ForeignIsRejected ==
    (codecPc = "encoded" /\ HoldsForeign(data)) => Raises(wire)

(* A list holding a mapping that holds the class of another session was    *)
(* given to encode, which raised.                                          *)
C18_Witness ==
    /\ codecPc = "encoded"
    /\ data = List(<<Dict(<<[k |-> Str(<<97>>),
                            val |-> [t |-> "PHPClass",
                                     val |-> [bridge |-> "other",
                                              name |-> "Foo"]]]>>)>>)
    /\ Raises(wire)

(* The wire array is a list, or a mapping with the keys "0", "1", ... in   *)
(* this order.                                                             *)
ListShaped(w) ==
    /\ w.type = "array"
    /\ w.value.t = "dict" =>
           \A i \in 1..Len(w.value.val) : w.value.val[i].k = Str(<<47 + i>>)

Element(w, i) ==
    decodeData(IF w.value.t = "list" THEN w.value.val[i]
               ELSE w.value.val[i].val)

(* C19: the Array decoded from the list [a, b] or from the mapping         *)
(* {"0": a, "1": b} yields a and b under the indexes 0 and 1, under the    *)
(* keys "0" and "1", and, in this order, when iterated.                    *)
C19_ArrayListAndMapAccess ==
    (codecPc = "accessed" /\ ListShaped(wire)) =>
        LET n == Len(wire.value.val)
        IN  /\ item.op = "iter" =>
                   item.value = List([i \in 1..n |-> Element(wire, i)])
            /\ \A i \in 1..n :
                   (item.op = "getitem"
                        /\ item.index \in {PyInt(i - 1), Str(<<47 + i>>)})
                       => item.value = Element(wire, i)

(* The second item of the Array decoded from {"0": 'a', "1": 1} was        *)
(* fetched with the index 1.                                               *)
C19_Witness ==
    /\ codecPc = "accessed"
    /\ wire = [type |-> "array",
               value |-> Dict(<<[k |-> Str(<<48>>),
                                 val |-> [type |-> "string",
                                          value |-> Str(<<97>>)]],
                                [k |-> Str(<<49>>),
                                 val |-> [type |-> "integer",
                                          value |-> PyInt(1)]]>>)]
    /\ item.op = "getitem"
    /\ item.index = PyInt(1)
    /\ item.value = PyInt(1)

----------------------------------------------------------------------------
(* Arrays *)

(* An int index below zero. *)
IsNegative(index) == index.t = "int" /\ index.val < 0

(* The text str gives for an index: the digit of a small number, the name  *)
(* of a bool; a string stands for itself.                                  *)
KeyText(index) ==
    IF index.t = "int" THEN Str(<<48 + index.val>>)
    ELSE IF index.t = "bool"
    THEN Str(IF index.val THEN <<84, 114, 117, 101>>
             ELSE <<70, 97, 108, 115, 101>>)
    ELSE index

(* Where the entry with this key is, 0 if there is none. *)
PositionOf(entries, key) ==
    IF \E i \in 1..Len(entries) : entries[i].k = key
    THEN CHOOSE i \in 1..Len(entries) : entries[i].k = key
    ELSE 0

(* C28: reading, writing and deleting with an integer index i act on the   *)
(* entry whose key is the string str(i), as they do with that string; the  *)
(* other entries and the order of the entries stay as they were, and a new *)
(* key is added at the end.                                                *)
C28_KeysAreNormalized ==
    [][IsNegative(arrItem'.index) \/
       LET key == KeyText(arrItem'.index)
           pos == PositionOf(array.val, key)
           n == Len(array.val)
       IN  /\ arrItem'.op = "getitem" =>
                /\ array' = array
                /\ arrItem'.value = IF pos = 0
                                    THEN [t |-> "exception", val |-> "KeyError"]
                                    ELSE array.val[pos].val
           /\ arrItem'.op = "setitem" =>
                array'.val = IF pos = 0
                           THEN Append(array.val, [k |-> key,
                                                 val |-> arrItem'.value])
                           ELSE [i \in 1..n |->
                                    IF i = pos
                                    THEN [k |-> key, val |-> arrItem'.value]
                                    ELSE array.val[i]]
           /\ arrItem'.op = "delitem" =>
                IF pos = 0
                THEN /\ array' = array
                     /\ arrItem'.value = [t |-> "exception", val |-> "KeyError"]
                ELSE /\ array'.val = [i \in 1..(n - 1) |->
                                       IF i < pos THEN array.val[i]
                                       ELSE array.val[i + 1]]
                     /\ arrItem'.value = None]_vars

(* The entry with key '0', between two others, was deleted with index 0. *)
C28_Witness ==
    /\ arrItem.op = "delitem"
    /\ arrItem.index = PyInt(0)
    /\ arrItem.value = None
    /\ Len(array.val) = 2
    /\ array.val[1].k = Str(<<120>>)
    /\ array.val[2].k = Str(<<49>>)

(* C29: Array.list(xs) has the keys '0', '1', ... in order with the values *)
(* of xs in order; listable is true exactly for the Arrays whose keys are  *)
(* '0', '1', ... in order, hence for every Array.list(xs).                 *)
C29_ListIsListable ==
    /\ arrMade.by = "list" =>
          /\ Len(array.val) = Len(arrMade.items)
          /\ \A i \in 1..Len(array.val) :
                /\ array.val[i].k = Str(<<48 + (i - 1)>>)
                /\ array.val[i].val = arrMade.items[i]
    /\ arrItem.op = "listable" =>
          /\ arrItem.value.val
                <=> \A i \in 1..Len(array.val) :
                       array.val[i].k = Str(<<48 + (i - 1)>>)
          /\ arrMade.by = "list" => arrItem.value.val

(* listable was asked of Array.list of two items, and it was true. *)
C29_Witness ==
    /\ arrMade.by = "list"
    /\ Len(arrMade.items) = 2
    /\ arrItem.op = "listable"
    /\ arrItem.value = Bool(TRUE)

(* C39: a value written with a key, a string or an int of either sign, is  *)
(* what a read with the same key returns right after.                      *)
C39_WriteThenRead ==
    [][(/\ arrItem.op = "setitem"
        /\ arrItem'.op = "getitem"
        /\ arrItem'.index = arrItem.index)
       => arrItem'.value = arrItem.value]_vars

----------------------------------------------------------------------------
(* Keyword arguments *)

(* C30: parse_args called with no keyword arguments returns the positional *)
(* arguments as they were given and raises nothing, whatever the           *)
(* signature: fewer parameters than arguments, required parameters left    *)
(* without a value, parameters whose default is unknown.                   *)
C30_NoKeywordsArgsUnchanged ==
    (argsPc \in {"parsed", "raised", "unencodable", "sent"} /\ DOMAIN orig_kwargs = {})
        => /\ parsed.raised = ""
           /\ parsed.args = orig_args
           /\ argsPc # "raised"

(* parse_args returned for a call without keyword arguments whose          *)
(* signature has a parameter with an unknown default and a required        *)
(* parameter that got no value.                                            *)
C30_Witness ==
    /\ argsPc = "parsed"
    /\ DOMAIN orig_kwargs = {}
    /\ orig_args = <<>>
    /\ Len(signature) = 2
    /\ signature[1].default.kind = "unknown"
    /\ signature[2].default.kind = "empty"
    /\ parsed.raised = ""

(* What the call gets when every parameter from position len(args) on is  *)
(* filled by its keyword if there is one and else by its default, until no *)
(* keyword is left: a parameter that has neither, and keywords left when   *)
(* the parameters have run out, are TypeErrors.                            *)
RECURSIVE FilledInOrder(_, _, _)
FilledInOrder(sig, args, kwargs) ==
    IF DOMAIN kwargs = {} THEN [raised |-> "", args |-> args]
    ELSE IF Len(args) >= Len(sig) THEN [raised |-> "TypeError", args |-> <<>>]
    ELSE LET param == sig[Len(args) + 1]
         IN  IF param.name \in DOMAIN kwargs
             THEN FilledInOrder(
                      sig, Append(args, kwargs[param.name]),
                      [k \in DOMAIN kwargs \ {param.name} |-> kwargs[k]])
             ELSE IF param.default.kind = "value"
             THEN FilledInOrder(sig, Append(args, param.default.val), kwargs)
             ELSE [raised |-> "TypeError", args |-> <<>>]

(* C31: parse_args called with keyword arguments returns the positional    *)
(* arguments extended, position by position from len(args) on, by the      *)
(* keyword value of the parameter if one was supplied and else by its      *)
(* default, until every keyword is consumed; it raises TypeError at a      *)
(* parameter that has neither a keyword nor a known default, and when the  *)
(* parameters run out while keywords remain.                               *)
C31_KeywordsFillInOrder ==
    (argsPc \in {"parsed", "raised", "unencodable", "sent"} /\ DOMAIN orig_kwargs # {})
        => LET filled == FilledInOrder(signature, orig_args, orig_kwargs)
           IN  /\ parsed.raised = filled.raised
               /\ parsed.args = filled.args

(* C32: parse_args ends for every signature, positional tuple and keyword  *)
(* mapping, after at most (parameters that the positional arguments left   *)
(* open) + 1 passes through its loop: every pass raises or appends one     *)
(* argument.  Without keyword arguments the loop is not entered.           *)
C32_LoopIsBounded ==
    argsPc \in {"parsed", "raised", "unencodable", "sent"}
        => LET open == IF Len(signature) > Len(orig_args)
                       THEN Len(signature) - Len(orig_args) ELSE 0
           IN  /\ parsed.iterations <= open + 1
               /\ parsed.raised = ""
                    => Len(parsed.args) = Len(orig_args) + parsed.iterations
               /\ DOMAIN orig_kwargs = {} => parsed.iterations = 0

(* C32 as stated: at most (number of parameters minus number of positional *)
(* arguments) + 1 passes.                                                  *)
C32_AtMostParamsMinusArgsPlusOne ==
    (argsPc \in {"parsed", "raised", "unencodable", "sent"} /\ DOMAIN orig_kwargs # {})
        => parsed.iterations + Len(orig_args) <= Len(signature) + 1

(* parse_args raised in its second pass: one keyword names the parameter   *)
(* that was filled positionally, the other names no parameter; the first   *)
(* pass appended the default of the second parameter.                      *)
C32_Witness ==
    /\ argsPc = "raised"
    /\ Len(signature) = 2
    /\ Len(orig_args) = 1
    /\ DOMAIN orig_kwargs = {"a", "z"}
    /\ signature[2].default.kind = "value"
    /\ parsed.iterations = 2

(* C37: when encode raises for an argument of a call (a value of no       *)
(* encodable type, a proxy of another session) the call fails and no       *)
(* record is written for it; the handle map, the pending set and the       *)
(* caches are as they were.                                                *)
C37_UnencodableWritesNothing ==
    [][(argsPc = "parsed"
          /\ \E i \in 1..Len(parsed.args) : Raises(encode(parsed.args[i])))
       => /\ argsPc' = "unencodable"
          /\ callRecord' = <<>>
          /\ UNCHANGED <<_remotes, _collected, classes, written>>]_vars

(* func was called with a number and a proxy of another session: the       *)
(* number was encoded, the proxy made encode raise, nothing was written.   *)
C37_Witness ==
    /\ argsPc = "unencodable"
    /\ Len(parsed.args) = 2
    /\ parsed.args[1] = PyInt(1)
    /\ parsed.args[2].t = "PHPObject"
    /\ callRecord = <<>>

----------------------------------------------------------------------------
(* Signatures *)

(* C33: in a signature make_signature built, a parameter that is not       *)
(* variadic and comes after a parameter with a default (a real one or the  *)
(* unknown default) has a default too.                                     *)
C33_DefaultsStayRequired ==
    sigPc = "made"
        => \A i, j \in 1..Len(sigMade) :
              (i < j /\ sigMade[i].default # "empty"
                     /\ sigMade[j].kind # "VAR_POSITIONAL")
                  => sigMade[j].default # "empty"

(* A signature was made of a parameter with a default, a required one and  *)
(* a variadic one: the required one got the unknown default.               *)
C33_Witness ==
    /\ sigPc = "made"
    /\ Len(sigInfo.params) = 3
    /\ sigInfo.params[1].flags.hasDefault
    /\ ~sigInfo.params[2].flags.hasDefault
    /\ ~sigInfo.params[2].flags.isOptional
    /\ sigInfo.params[3].flags.variadic
    /\ sigMade[Len(sigMade) - 1].default = "unknown"
    /\ sigMade[Len(sigMade)].default = "empty"

(* C40: the parameter names of a signature make_signature built are        *)
(* pairwise distinct, the name given as add_first is the first and is kept *)
(* as it is, and a foreign name that was not in use is kept as it is.      *)
C40_NamesAreDistinct ==
    sigPc = "made"
        => LET first == IF sigInfo.add_first = <<>> THEN 0 ELSE 1
           IN  /\ Len(sigMade) = Len(sigInfo.params) + first
               /\ \A i, j \in 1..Len(sigMade) :
                     i # j => sigMade[i].name # sigMade[j].name
               /\ first = 1 => sigMade[1].name = sigInfo.add_first
               /\ \A i \in 1..Len(sigInfo.params) :
                     LET name == sigInfo.params[i].name
                         made == sigMade[i + first].name
                     IN  /\ Len(made) >= Len(name)
                         /\ SubSeq(made, 1, Len(name)) = name
                         /\ (\A j \in 1..i + first - 1 :
                                 sigMade[j].name # name) => made = name

(* A method whose parameters are named a, a and a2: the second a finds a2  *)
(* free, and the foreign a2 then becomes a22.                              *)
C40_Witness ==
    /\ sigPc = "made"
    /\ sigInfo.add_first = <<"self">>
    /\ Len(sigInfo.params) = 3
    /\ sigInfo.params[1].name = <<"a">>
    /\ sigInfo.params[2].name = <<"a">>
    /\ sigInfo.params[3].name = <<"a", "2">>
    /\ sigMade[3].name = <<"a", "2">>
    /\ sigMade[4].name = <<"a", "2", "2">>

----------------------------------------------------------------------------
(* Class resolution *)

(* C23: a name the worker reports as unresolvable makes resolve raise       *)
(* AttributeError after one resolveName record and no other record; the    *)
(* three caches are left as they were, no record is left without its reply *)
(* and the next command can be sent.                                       *)
C23_UnresolvableFailsOnce ==
    [][(rsPc = "resolving" /\ rsRead' = <<[type |-> "result", data |-> "none"]>>)
        => /\ rsOutcome' = [kind |-> "raised", what |-> "AttributeError"]
           /\ rsSent' = 1
           /\ rsWritten' = <<>>
           /\ rsCache' = rsCache
           /\ rsUnread' = 0
           /\ rsPc' = "idle"]_vars

(* After NS\nope was reported unresolvable and nothing was cached for it,  *)
(* a class was resolved and stored.                                        *)
C23_Witness ==
    /\ "NS\\nope" \in rsFailed
    /\ "NS\\nope" \notin cache
    /\ rsOutcome = [kind |-> "returned", what |-> "Foo"]
    /\ rsCache.classes = {"Foo"}

(* C24: the loop that removes redundant bases ends; after it no base is a  *)
(* subclass of, or the same class as, a base at another position, and      *)
(* every class that was deleted is an ancestor of, or the same class as, a *)
(* base that is left.                                                      *)
C24_BasesPrunedToMinimal ==
    /\ <>(prunePc = "done")
    /\ [](prunePc = "done" =>
            /\ \A i, j \in 1..Len(bases) :
                  i # j => ~issubclass(bases[i], bases[j])
            /\ \A c \in pruned :
                  \E i \in 1..Len(bases) : issubclass(bases[i], c))

(* From PHPObject, A, Throwable and B the loop left Throwable and B. *)
C24_Witness ==
    /\ prunePc = "done"
    /\ given = <<"PHPObject", "A", "Throwable", "B">>
    /\ bases = <<"Throwable", "B">>
    /\ pruned = {"PHPObject", "A"}

(* C25: sessions share no protocol state: a step of one bridge leaves the  *)
(* handle map, the pending set and the class, function and constant        *)
(* dictionaries of the other bridge as they were, and no proxy is returned *)
(* by the decode of both bridges.                                          *)
C25_SessionsAreIndependent ==
    [][/\ \A s \in Sessions :
            s # sActed'.session =>
                /\ sRemotes'[s] = sRemotes[s]
                /\ sCollected'[s] = sCollected[s]
                /\ sCaches'[s] = sCaches[s]
       /\ sYielded'["A"] \cap sYielded'["B"] = {}]_vars

(* Both bridges have decoded o1; the hook of B's proxy ran: o1 is pending  *)
(* on B only, A still has its live proxy registered, and the function B    *)
(* resolved is not in A's dictionary.                                      *)
C25_Witness ==
    /\ sActed.op = "hook"
    /\ sActed.session = "B"
    /\ sYielded["A"] # {}
    /\ sYielded["B"] # {}
    /\ sRemotes["A"]["o1"] # 0
    /\ heap[sRemotes["A"]["o1"]].st = "live"
    /\ sRemotes["B"]["o1"] = 0
    /\ sCollected["A"] = {}
    /\ sCollected["B"] = {"o1"}
    /\ sCaches["B"].functions = {"strlen"}
    /\ sCaches["A"].functions = {}

(* C20: once get_class has returned a class for a name, every later        *)
(* get_class of this name returns the same class, and classInfo is not     *)
(* sent for this name again.                                               *)
C20_ResolutionIsMemoized ==
    [][/\ returned' # <<>> =>
              resolved'[returned'[1].name] = returned'[1].class
       /\ asked' # <<>> => resolved[asked'[1]] = 0]_vars

(* C21: the spellings of one class name resolve to the same class: the     *)
(* classes get_class returned for a name and for the name it stands for    *)
(* are one object, whichever was asked for first.                          *)
C21_SpellingsResolveAlike ==
    \A u \in Requests :
        resolved[u] # 0 /\ resolved[Canonical(u)] # 0
            => resolved[u] = resolved[Canonical(u)]

(* C22: the entry of bridge.classes for a class name is never bound to     *)
(* another class object, also when creating the class asks for the class   *)
(* again.                                                                  *)
C22_EntryNeverRebound ==
    [][\A c \in Names :
          classObjects[c] # 0 => classObjects'[c] = classObjects[c]]_vars

----------------------------------------------------------------------------
(* The garbage round trip *)

(* C1 as stated: the next record written after the hook of a proxy of H    *)
(* lists H, and no record written after an acknowledgment of H lists H.    *)
C1_NextListsNeverAgain ==
    [][written' # <<>> =>
          /\ hookedSinceSend \subseteq written'[1].garbage
          /\ everAcked' \cap written'[1].garbage = {}]_vars

(* C1 amended: every record written between the hook of a proxy of H and   *)
(* the processing of a reply that acknowledges H lists H, and no record    *)
(* written between that reply and the next hook of a proxy of H lists H.   *)
C1_GcRoundTrip ==
    [][written' # <<>> =>
          \A h \in Handles :
              /\ gc'[h] = "hooked" => h \in written'[1].garbage
              /\ gc'[h] = "acked" => h \notin written'[1].garbage]_vars

(* A command was written without h after h had been listed and             *)
(* acknowledged.                                                           *)
C1_Witness ==
    \E h \in Handles :
        /\ gc[h] = "acked"
        /\ h \in everAcked
        /\ written # <<>>
        /\ readLine = <<>>
        /\ h \notin written[1].garbage

====
